---- MODULE Spec2Model ----
(***************************************************************************)
(* Model of the event decoder of subxt (src/src/events.rs):                *)
(*   EventsDecoder::decode_events, decode_raw_event, decode_type and       *)
(*   RawEvent::as_event, over a byte cursor and a type registry.           *)
(* Bytes are the integers 0..255.  Integers read from the wire are kept as *)
(* little-endian byte sequences without trailing zero bytes ("numbers"),   *)
(* so that 32, 64 and 128 bit values keep their width.                     *)
(***************************************************************************)
EXTENDS Integers, Sequences, FiniteSets, TLC

(***************************************************************************)
(* Bounds of the model.                                                    *)
(***************************************************************************)
\* longest run of arbitrary bytes put after a record header
MaxRawLen == 3
\* most records in a generated well-formed stream
MaxRecords == 3
\* deepest nesting of decode_type calls that is followed
MaxDepth == 8
\* most elements of a generated sequence value
MaxSeqLen == 2
\* decode_events calls that run at the same time
MaxCalls == 2

(***************************************************************************)
(* Byte sequences and numbers.                                             *)
(***************************************************************************)
Take(s, n) == SubSeq(s, 1, n)
Drop(s, n) == SubSeq(s, n + 1, Len(s))

Zeros(n) == [i \in 1..n |-> 0]

Rep(b, n) == [i \in 1..n |-> b]

RECURSIVE Trim(_)
\* a number: the little-endian bytes without trailing zero bytes
Trim(s) == IF s = <<>> THEN <<>>
           ELSE IF s[Len(s)] = 0 THEN Trim(Take(s, Len(s) - 1)) ELSE s

\* the little-endian bytes of number v in a field of w bytes
Pad(v, w) == v \o Zeros(w - Len(v))

\* v < 2^30, so that v and 4 * v + 3 are below 2^32
Small(v) == Len(v) < 4 \/ (Len(v) = 4 /\ v[4] < 64)

RECURSIVE IntOf(_)
\* the integer of a number below 2^30
IntOf(v) == IF v = <<>> THEN 0 ELSE v[1] + 256 * IntOf(Tail(v))

\* s >> 2 on little-endian bytes, same length
Shr2(s) ==
    [i \in 1..Len(s) |->
        (s[i] \div 4) + (IF i < Len(s) THEN (s[i + 1] % 4) * 64 ELSE 0)]

\* (s << 2) | low on little-endian bytes, same length (top two bits of s clear)
Shl2(s, low) ==
    [i \in 1..Len(s) |->
        (s[i] % 64) * 4 + (IF i > 1 THEN s[i - 1] \div 64 ELSE low)]

(***************************************************************************)
(* Results of the codec's decoders: ok, the value read (a number or a byte *)
(* string) and the input left.  On failure `rest` is where the cursor was  *)
(* left.                                                                   *)
(***************************************************************************)
Got(v, rest) == [ok |-> TRUE, val |-> v, rest |-> rest]
Bad(rest) == [ok |-> FALSE, val |-> <<>>, rest |-> rest]

\* mutant of ReadByte: at the end of the input a zero byte is read
ReadByte_zero_at_end(in) ==
    IF in = <<>> THEN Got(<<0>>, <<>>) ELSE Got(<<in[1]>>, Tail(in))

\* Input::read_byte on a slice
ReadByte(in) ==
    IF in = <<>> THEN Bad(in) ELSE Got(<<in[1]>>, Tail(in))

\* Input::read of n bytes on a slice: all of them or none
ReadExact(in, n) ==
    IF Len(in) < n THEN Bad(in) ELSE Got(Take(in, n), Drop(in, n))

\* <uN>::decode and <iN>::decode, w bytes wide
DecodeFixed(w, in) ==
    LET r == ReadExact(in, w)
    IN  IF r.ok THEN Got(Trim(r.val), r.rest) ELSE r

\* uN::encode_to
EncodeFixed(w, v) == Pad(v, w)

\* bool::decode
DecodeBool(in) ==
    LET r == ReadByte(in)
    IN  IF ~r.ok THEN r
        ELSE IF r.val[1] \in {0, 1} THEN Got(Trim(r.val), r.rest)
        ELSE Bad(r.rest)

\* the largest value of the 1 and 2 byte targets (wider ones exceed 2^30)
NarrowMax(w) == IF w = 1 THEN 255 ELSE 65535

\* Compact<uN>::decode for a target of w bytes (1, 2, 4, 8 or 16):
\* the value must be in the range of its mode (canonical) and of the target
CompactDecode(w, in) ==
    LET p == ReadByte(in)
        b == p.val[1]
        mode == b % 4
    IN  IF ~p.ok THEN p
        ELSE IF mode = 0 THEN Got(Trim(<<b \div 4>>), p.rest)
        ELSE IF mode = 1 THEN
            LET r == ReadExact(p.rest, 1)
                x == IntOf(Shr2(<<b>> \o r.val))
            IN  IF ~r.ok THEN Bad(p.rest)
                ELSE IF x > 63 /\ (w > 1 \/ x <= NarrowMax(w))
                     THEN Got(Trim(Shr2(<<b>> \o r.val)), r.rest)
                     ELSE Bad(r.rest)
        ELSE IF mode = 2 THEN
            IF w = 1 THEN Bad(p.rest)
            ELSE
            LET r == ReadExact(p.rest, 3)
                x == IntOf(Shr2(<<b>> \o r.val))
            IN  IF ~r.ok THEN Bad(p.rest)
                ELSE IF x > 16383 /\ (w > 2 \/ x <= NarrowMax(w))
                     THEN Got(Trim(Shr2(<<b>> \o r.val)), r.rest)
                     ELSE Bad(r.rest)
        ELSE
            LET n == (b \div 4) + 4
            IN  IF w <= 2 \/ n > w THEN Bad(p.rest)
                ELSE IF n \in {4, 8, 16} THEN
                    LET r == ReadExact(p.rest, n)
                    IN  IF ~r.ok THEN Bad(p.rest)
                        ELSE IF (n = 4 /\ r.val[4] >= 64) \/ (n > 4 /\ r.val[n] # 0)
                             THEN Got(Trim(r.val), r.rest)
                             ELSE Bad(r.rest)
                ELSE
                    \* read byte by byte: a short input is used up
                    IF Len(p.rest) < n THEN Bad(<<>>)
                    ELSE IF p.rest[n] # 0
                         THEN Got(Trim(Take(p.rest, n)), Drop(p.rest, n))
                         ELSE Bad(Drop(p.rest, n))

\* Compact<uN>::encode_to: the shortest mode that holds the value
CompactEncode(v) ==
    IF Small(v) THEN
        IF IntOf(v) <= 63 THEN <<IntOf(v) * 4>>
        ELSE IF IntOf(v) <= 16383 THEN Shl2(Pad(v, 2), 1)
        ELSE Shl2(Pad(v, 4), 2)
    ELSE <<3 + (Len(v) - 4) * 4>> \o v


\* well-formed UTF-8 (core::str::from_utf8), by the lead byte of each scalar
IsCont(b) == b >= 128 /\ b <= 191

RECURSIVE Utf8Ok(_)
Utf8Ok(s) ==
    IF s = <<>> THEN TRUE
    ELSE LET b == s[1]
             n == Len(s)
         IN  IF b < 128 THEN Utf8Ok(Tail(s))
             ELSE IF b >= 194 /\ b <= 223
                  THEN n >= 2 /\ IsCont(s[2]) /\ Utf8Ok(Drop(s, 2))
             ELSE IF b >= 224 /\ b <= 239
                  THEN /\ n >= 3
                       /\ IsCont(s[2])
                       /\ IsCont(s[3])
                       /\ (b = 224 => s[2] >= 160)
                       /\ (b = 237 => s[2] <= 159)
                       /\ Utf8Ok(Drop(s, 3))
             ELSE IF b >= 240 /\ b <= 244
                  THEN /\ n >= 4
                       /\ IsCont(s[2])
                       /\ IsCont(s[3])
                       /\ IsCont(s[4])
                       /\ (b = 240 => s[2] >= 144)
                       /\ (b = 244 => s[2] <= 143)
                       /\ Utf8Ok(Drop(s, 4))
             ELSE FALSE

\* String::decode: a Compact<u32> length, that many bytes, valid UTF-8
DecodeStr(in) ==
    LET c == CompactDecode(4, in)
        n == IntOf(c.val)
    IN  IF ~c.ok THEN c
        ELSE IF ~Small(c.val) \/ Len(c.rest) < n THEN Bad(c.rest)
        ELSE IF Utf8Ok(Take(c.rest, n)) THEN Got(Take(c.rest, n), Drop(c.rest, n))
        ELSE Bad(Drop(c.rest, n))

\* String::encode_to
EncodeStr(s) == CompactEncode(Trim(<<Len(s) % 256, Len(s) \div 256>>)) \o s

(***************************************************************************)
(* Type definitions (scale_info::TypeDef), all of one record shape.        *)
(***************************************************************************)
TypeDefOf(d, fs, vs, e, n, p) ==
    [def |-> d, fields |-> fs, variants |-> vs, elem |-> e, len |-> n, prim |-> p]

Composite(fs) == TypeDefOf("Composite", fs, <<>>, 0, 0, "")
Variant(vs) == TypeDefOf("Variant", <<>>, vs, 0, 0, "")
SequenceOf(e) == TypeDefOf("Sequence", <<>>, <<>>, e, 0, "")
ArrayOf(e, n) == TypeDefOf("Array", <<>>, <<>>, e, n, "")
Tuple(fs) == TypeDefOf("Tuple", fs, <<>>, 0, 0, "")
Primitive(p) == TypeDefOf("Primitive", <<>>, <<>>, 0, 0, p)
Compact(e) == TypeDefOf("Compact", <<>>, <<>>, e, 0, "")
BitSequence == TypeDefOf("BitSequence", <<>>, <<>>, 0, 0, "")

\* TypeDefPrimitive
Primitives ==
    {"Bool", "Char", "Str", "U8", "U16", "U32", "U64", "U128", "U256",
     "I8", "I16", "I32", "I64", "I128", "I256"}

\* bytes of the fixed-width integer primitives
WidthOf(p) ==
    CASE p \in {"U8", "I8"} -> 1
      [] p \in {"U16", "I16"} -> 2
      [] p \in {"U32", "I32", "Char"} -> 4
      [] p \in {"U64", "I64"} -> 8
      [] p \in {"U128", "I128"} -> 16
      [] p \in {"U256", "I256"} -> 32
      [] OTHER -> 0

(***************************************************************************)
(* The metadata snapshot the decoder is built with: a type registry and an *)
(* event registry.  Type ids 96..99 are referenced and not registered;      *)
(* 70..72 reach themselves without reading input, 73 through a variant;    *)
(* 75..77 refer to a type that no value of theirs need contain.            *)
(***************************************************************************)
Types ==
    (1 :> Primitive("U8")) @@ (2 :> Primitive("Bool")) @@
    (3 :> Primitive("U16")) @@ (4 :> Primitive("U32")) @@
    (5 :> Primitive("U128")) @@ (6 :> Primitive("Str")) @@
    (7 :> Primitive("Char")) @@ (8 :> Primitive("U256")) @@
    (9 :> Primitive("I256")) @@ (10 :> Primitive("I16")) @@
    (20 :> ArrayOf(1, 32)) @@ (21 :> Composite(<<20>>)) @@
    (22 :> Compact(5)) @@ (23 :> Compact(4)) @@ (24 :> Compact(1)) @@
    (25 :> Composite(<<4>>)) @@ (26 :> Compact(25)) @@
    (30 :> Variant(<< <<>>, <<1>> >>)) @@ (31 :> SequenceOf(1)) @@
    (32 :> Tuple(<<2, 1>>)) @@ (33 :> ArrayOf(3, 2)) @@
    (34 :> Composite(<<1, 30>>)) @@ (35 :> SequenceOf(32)) @@
    (40 :> BitSequence) @@ (41 :> SequenceOf(40)) @@
    (42 :> Variant(<< <<>>, <<7>> >>)) @@ (43 :> Compact(7)) @@
    (44 :> Compact(99)) @@ (45 :> Composite(<<98>>)) @@
    (46 :> SequenceOf(97)) @@ (47 :> ArrayOf(7, 0)) @@
    (48 :> Composite(<<1, 7>>)) @@ (49 :> Tuple(<<8>>)) @@
    (50 :> ArrayOf(40, 1)) @@
    (51 :> Composite(<<>>)) @@ (52 :> Compact(51)) @@ (53 :> Compact(34)) @@
    (54 :> Compact(2)) @@ (55 :> Compact(6)) @@ (56 :> Compact(10)) @@
    (57 :> Compact(8)) @@ (58 :> Compact(30)) @@ (59 :> Compact(31)) @@
    (60 :> Compact(20)) @@ (61 :> Compact(32)) @@ (62 :> Compact(40)) @@
    (63 :> Compact(22)) @@ (64 :> Compact(21)) @@
    (70 :> Composite(<<71>>)) @@ (71 :> Tuple(<<70>>)) @@
    (72 :> ArrayOf(72, 1)) @@ (73 :> Variant(<< <<>>, <<73>> >>)) @@
    (74 :> Tuple(<<>>)) @@ (75 :> Variant(<< <<>>, <<96>> >>)) @@
    (76 :> ArrayOf(96, 0)) @@ (77 :> SequenceOf(8))

EventMetadata(pi, vi, p, e, fs) ==
    [pallet_index |-> pi, variant_index |-> vi, pallet |-> p, event |-> e,
     fields |-> fs]

Events ==
    << EventMetadata(5, 2, "Balances", "Transfer", <<21, 21, 22>>),
       EventMetadata(0, 0, "System", "ExtrinsicSuccess", <<>>),
       EventMetadata(0, 1, "System", "Remarked", <<1, 31>>),
       EventMetadata(1, 0, "Test", "Opt", <<30>>),
       EventMetadata(1, 1, "Test", "Struct", <<34>>),
       EventMetadata(1, 2, "Test", "Pairs", <<35>>),
       EventMetadata(1, 3, "Test", "Words", <<33, 2>>),
       EventMetadata(1, 4, "Test", "Text", <<6>>),
       EventMetadata(1, 5, "Test", "Rate", <<26>>),
       EventMetadata(1, 6, "Test", "Small", <<24, 10>>),
       EventMetadata(2, 0, "Bad", "Char", <<7>>),
       EventMetadata(2, 1, "Bad", "U256", <<49>>),
       EventMetadata(2, 2, "Bad", "I256", <<9>>),
       EventMetadata(2, 3, "Bad", "OptChar", <<42>>),
       EventMetadata(2, 4, "Bad", "CompactChar", <<43>>),
       EventMetadata(2, 5, "Bad", "AfterByte", <<48>>),
       EventMetadata(2, 6, "Bad", "NoChars", <<47>>),
       EventMetadata(3, 0, "Bits", "Flags", <<40>>),
       EventMetadata(3, 1, "Bits", "FlagList", <<41>>),
       EventMetadata(3, 2, "Bits", "OneFlag", <<50>>),
       EventMetadata(4, 0, "Gone", "Field", <<96>>),
       EventMetadata(4, 1, "Gone", "CompactInner", <<44>>),
       EventMetadata(4, 2, "Gone", "CompositeField", <<45>>),
       EventMetadata(4, 3, "Gone", "SeqElem", <<46>>),
       EventMetadata(1, 7, "Test", "Tiny", <<24>>),
       EventMetadata(6, 0, "Wrap", "Unit", <<52>>),
       EventMetadata(6, 1, "Wrap", "Pair", <<53>>),
       EventMetadata(6, 2, "Wrap", "Bool", <<54>>),
       EventMetadata(6, 3, "Wrap", "Str", <<55>>),
       EventMetadata(6, 4, "Wrap", "I16", <<56>>),
       EventMetadata(6, 5, "Wrap", "U256", <<57>>),
       EventMetadata(6, 6, "Wrap", "Variant", <<58>>),
       EventMetadata(6, 7, "Wrap", "Sequence", <<59>>),
       EventMetadata(6, 8, "Wrap", "Array", <<60>>),
       EventMetadata(6, 9, "Wrap", "Tuple", <<61>>),
       EventMetadata(6, 10, "Wrap", "Bits", <<62>>),
       EventMetadata(6, 11, "Wrap", "Nested", <<63>>),
       EventMetadata(6, 12, "Wrap", "Account", <<64>>),
       EventMetadata(7, 0, "Loop", "Self", <<70>>),
       EventMetadata(7, 1, "Loop", "Ring", <<72>>),
       EventMetadata(7, 2, "Loop", "List", <<73>>),
       EventMetadata(8, 0, "Lazy", "Unit", <<51>>),
       EventMetadata(8, 1, "Lazy", "Nothing", <<74>>),
       EventMetadata(8, 2, "Lazy", "OptGone", <<75>>),
       EventMetadata(8, 3, "Lazy", "NoGone", <<76>>),
       EventMetadata(8, 4, "Lazy", "Wide", <<77>>) >>

\* the snapshot handed to EventsDecoder::new
Snapshot == [types |-> Types, events |-> Events]

\* no event of the metadata
NoEvent == EventMetadata(255, 255, "", "", <<>>)


(***************************************************************************)
(* State.                                                                  *)
(*   metadata       the snapshot held by the EventsDecoder                 *)
(*   orig           the bytes the caller passed to decode_events           *)
(*   wire           the records orig was generated from (<<>> when orig is *)
(*                  arbitrary bytes) and trailing, the bytes put after them*)
(*   input          the caller's cursor: the bytes not yet consumed        *)
(*   pc             where decode_events is                                 *)
(*   len, r         the record count read and the Vec being built          *)
(*   phase, event_metadata, event_data, walked                             *)
(*                  the locals of the current loop iteration; walked is    *)
(*                  the list of type ids decode_type was entered with      *)
(*   ret            what the caller receives                               *)
(*   proj           the last as_event call: the RawEvent, the event type   *)
(*                  and the result                                         *)
(*   calls          the decode_events calls of several threads on the one  *)
(*                  decoder: for each its argument, cursor, locals and     *)
(*                  result (empty while a single call is followed)         *)
(*   rpc            a NumberOrHex of the RPC layer (src/subxt/src/rpc/     *)
(*                  rpc.rs) on its way: the value, its JSON text, what the *)
(*                  text deserializes to, and a conversion to an integer   *)
(***************************************************************************)
VARIABLES metadata, orig, wire, trailing, input, pc, len, r, phase,
          event_metadata, event_data, walked, ret, proj, calls, rpc

vars == <<metadata, orig, wire, trailing, input, pc, len, r, phase,
          event_metadata, event_data, walked, ret, proj, calls, rpc>>

(***************************************************************************)
(* Outcomes: Ok, an Error value, or the process aborting.                  *)
(***************************************************************************)
Outcome(t, k, a, b, p) == [tag |-> t, kind |-> k, a |-> a, b |-> b, prim |-> p]

Ok == Outcome("Ok", "", 0, 0, "")
\* Error::Codec: a decode failure of the codec
CodecError == Outcome("Err", "Codec", 0, 0, "")
TypeNotFound(id) == Outcome("Err", "TypeNotFound", id, 0, "")
\* mutant of EventNotFound: the two indices change places
EventNotFound_swapped(pi, vi) == Outcome("Err", "EventNotFound", vi, pi, "")
EventNotFound(pi, vi) == Outcome("Err", "EventNotFound", pi, vi, "")
\* Error::Other("Variant {} not found")
VariantNotFound(d) == Outcome("Err", "VariantNotFound", d, 0, "")
UnsupportedPrimitive(p) == Outcome("Err", "UnsupportedPrimitive", 0, 0, p)
InvalidCompactPrimitive(p) == Outcome("Err", "InvalidCompactPrimitive", 0, 0, p)
\* the three messages of InvalidCompactType
SinglePrimitiveField == 1
SingleField == 2
PrimitiveOrComposite == 3
InvalidCompactType(m) == Outcome("Err", "InvalidCompactType", m, 0, "")
\* unimplemented!(): the thread panics
Unimplemented == Outcome("Panic", "Unimplemented", 0, 0, "BitSequence")
\* the nesting of calls outgrew the stack
StackOverflow == Outcome("Abort", "StackOverflow", 0, 0, "")

(***************************************************************************)
(* Metadata lookups.                                                       *)
(***************************************************************************)
\* Metadata::resolve_type: is the id registered
Resolves(type_id) == type_id \in DOMAIN metadata.types

\* the type Metadata::resolve_type returns
resolve_type(type_id) == metadata.types[type_id]

\* Metadata::event: the positions of the events with these indices
EventAt(pi, vi) ==
    {k \in 1..Len(metadata.events) :
        /\ metadata.events[k].pallet_index = pi
        /\ metadata.events[k].variant_index = vi}

(***************************************************************************)
(* The walker.  Its state is the cursor `in`, the output buffer `out`, the *)
(* ids it was entered with `trace` and the outcome so far `res`.           *)
(***************************************************************************)
Walk(in, out, trace, res) == [in |-> in, out |-> out, trace |-> trace, res |-> res]

Fail(st, e) == [st EXCEPT !.res = e]

\* mutant of decode_raw: the value is decoded and not written to the output
decode_raw_not_encoded(st, d, enc) ==
    IF d.ok THEN [st EXCEPT !.in = d.rest]
    ELSE [st EXCEPT !.in = d.rest, !.res = CodecError]

\* decode_raw::<T>: T::decode(input)?, then encode_to(output);
\* d is the decoder's result and enc the encoding of its value
decode_raw(st, d, enc) ==
    IF d.ok THEN [st EXCEPT !.in = d.rest, !.out = st.out \o enc]
    ELSE [st EXCEPT !.in = d.rest, !.res = CodecError]

\* the closure decode_compact_primitive
decode_compact_primitive(primitive, st) ==
    IF primitive \in {"U8", "U16", "U32", "U64", "U128"}
    THEN LET d == CompactDecode(WidthOf(primitive), st.in)
         IN  decode_raw(st, d, CompactEncode(d.val))
    ELSE Fail(st, InvalidCompactPrimitive(primitive))

\* mutant of DecodePrimitive: a Char is read as the four bytes of a u32
DecodePrimitive_char_as_u32(primitive, st) ==
    CASE primitive = "Bool" ->
            LET d == DecodeBool(st.in) IN decode_raw(st, d, Pad(d.val, 1))
      [] primitive \in {"U256", "I256"} ->
            Fail(st, UnsupportedPrimitive(primitive))
      [] primitive = "Str" ->
            LET d == DecodeStr(st.in) IN decode_raw(st, d, EncodeStr(d.val))
      [] OTHER ->
            LET d == DecodeFixed(WidthOf(primitive), st.in)
            IN  decode_raw(st, d, EncodeFixed(WidthOf(primitive), d.val))

\* the Primitive arm of decode_type
DecodePrimitive(primitive, st) ==
    CASE primitive = "Bool" ->
            LET d == DecodeBool(st.in) IN decode_raw(st, d, Pad(d.val, 1))
      [] primitive \in {"Char", "U256", "I256"} ->
            Fail(st, UnsupportedPrimitive(primitive))
      [] primitive = "Str" ->
            LET d == DecodeStr(st.in) IN decode_raw(st, d, EncodeStr(d.val))
      [] OTHER ->
            LET d == DecodeFixed(WidthOf(primitive), st.in)
            IN  decode_raw(st, d, EncodeFixed(WidthOf(primitive), d.val))

\* mutant of DecodeBitSequence: the arm returns Ok(()) and reads nothing
DecodeBitSequence_skipped(st) == st

\* the BitSequence arm of decode_type: unimplemented!()
DecodeBitSequence(st) == Fail(st, Unimplemented)

\* mutant of CompactInner: the type parameter of the Compact is resolved
CompactInner_type_param(type_id, ty) == ty.elem

\* the type the Compact arm calls `inner`: resolve_type(type_id), that is the
\* Compact type itself and not its type parameter
CompactInner(type_id, ty) == type_id

\* one of the two matches on inner.type_def(); only the second has the
\* Compact arm
CompactMatch(inner, st, second) ==
    CASE inner.def = "Primitive" -> decode_compact_primitive(inner.prim, st)
      [] inner.def = "Composite" ->
            IF Len(inner.fields) = 1
            THEN IF ~Resolves(inner.fields[1])
                 THEN Fail(st, TypeNotFound(inner.fields[1]))
                 ELSE IF resolve_type(inner.fields[1]).def = "Primitive"
                      THEN decode_compact_primitive(
                               resolve_type(inner.fields[1]).prim, st)
                      ELSE Fail(st, InvalidCompactType(SinglePrimitiveField))
            ELSE Fail(st, InvalidCompactType(SingleField))
      [] inner.def = "Compact" /\ second ->
            LET d == CompactDecode(16, st.in)
            IN  decode_raw(st, d, CompactEncode(d.val))
      [] OTHER -> Fail(st, InvalidCompactType(PrimitiveOrComposite))

\* the `?` in the single-field arm returns from decode_type
MatchReturns(inner) ==
    /\ inner.def = "Composite"
    /\ Len(inner.fields) = 1
    /\ ~Resolves(inner.fields[1])

\* the Compact arm: the first match's value is dropped, the second's returned
DecodeCompact(type_id, ty, st) ==
    IF ~Resolves(CompactInner(type_id, ty))
    THEN Fail(st, TypeNotFound(CompactInner(type_id, ty)))
    ELSE LET inner == resolve_type(CompactInner(type_id, ty))
             first == CompactMatch(inner, st, FALSE)
         IN  IF MatchReturns(inner) THEN first
             ELSE CompactMatch(inner, [first EXCEPT !.res = Ok], TRUE)

\* the loop count of a sequence; from 2^30 on every element type that reads a
\* byte has run out of input, and one that reads none changes nothing
CountOf(v) == IF Small(v) THEN IntOf(v) ELSE 1073741824

RECURSIVE decode_type(_, _, _), DecodeEach(_, _, _), DecodeTimes(_, _, _, _)

\* `for field in fields { self.decode_type(field, input, output)? }`
DecodeEach(ids, st, depth) ==
    IF ids = <<>> \/ st.res # Ok THEN st
    ELSE DecodeEach(Tail(ids), decode_type(Head(ids), st, depth), depth)

\* mutant of DecodeTimes: the element type is resolved before the loop
DecodeTimes_resolved_first(elem, n, st, depth) ==
    IF st.res = Ok /\ ~Resolves(elem) THEN Fail(st, TypeNotFound(elem))
    ELSE IF n = 0 \/ st.res # Ok THEN st
    ELSE DecodeTimes(elem, n - 1, decode_type(elem, st, depth), depth)

\* `for _ in 0..n { self.decode_type(elem, input, output)? }`
DecodeTimes(elem, n, st, depth) ==
    IF n = 0 \/ st.res # Ok THEN st
    ELSE DecodeTimes(elem, n - 1, decode_type(elem, st, depth), depth)

\* mutant of DecodeVariant: the variant is looked up by counting from the end
\* of the list
DecodeVariant_from_end(ty, st, depth) ==
    LET d == DecodeFixed(1, st.in)
        s1 == decode_raw(st, d, EncodeFixed(1, d.val))
        variant_index == IntOf(d.val)
    IN  IF ~d.ok THEN s1
        ELSE IF variant_index >= Len(ty.variants)
        THEN Fail(s1, VariantNotFound(variant_index))
        ELSE DecodeEach(ty.variants[Len(ty.variants) - variant_index], s1, depth)

\* the Variant arm of decode_type (lines 187-201)
DecodeVariant(ty, st, depth) ==
    LET d == DecodeFixed(1, st.in)
        s1 == decode_raw(st, d, EncodeFixed(1, d.val))
        variant_index == IntOf(d.val)
    IN  IF ~d.ok THEN s1
        ELSE IF variant_index >= Len(ty.variants)
        THEN Fail(s1, VariantNotFound(variant_index))
        ELSE DecodeEach(ty.variants[variant_index + 1], s1, depth)

\* mutant of DecodeSequence: the loop runs once more than the count says
DecodeSequence_one_more(ty, st, depth) ==
    LET d == CompactDecode(4, st.in)
        s1 == decode_raw(st, d, CompactEncode(d.val))
    IN  IF ~d.ok THEN s1
        ELSE DecodeTimes(ty.elem, CountOf(d.val) + 1, s1, depth)

\* the Sequence arm of decode_type (lines 202-209)
DecodeSequence(ty, st, depth) ==
    LET d == CompactDecode(4, st.in)
        s1 == decode_raw(st, d, CompactEncode(d.val))
    IN  IF ~d.ok THEN s1
        ELSE DecodeTimes(ty.elem, CountOf(d.val), s1, depth)

\* mutant of DecodeArray: the length is read from the wire as a sequence's is
DecodeArray_length_prefixed(ty, st, depth) ==
    LET d == CompactDecode(4, st.in)
        s1 == decode_raw(st, d, CompactEncode(d.val))
    IN  IF ~d.ok THEN s1
        ELSE DecodeTimes(ty.elem, ty.len, s1, depth)

\* the Array arm of decode_type (lines 210-215)
DecodeArray(ty, st, depth) == DecodeTimes(ty.elem, ty.len, st, depth)

\* decode_type(type_id, input, output); depth is the nesting still allowed
decode_type(type_id, st0, depth) ==
    LET st == [st0 EXCEPT !.trace = Append(st0.trace, type_id)]
    IN  IF depth = 0 THEN Fail(st, StackOverflow)
        ELSE IF ~Resolves(type_id) THEN Fail(st, TypeNotFound(type_id))
        ELSE
        LET ty == resolve_type(type_id)
        IN  CASE ty.def = "Composite" -> DecodeEach(ty.fields, st, depth - 1)
              [] ty.def = "Variant" -> DecodeVariant(ty, st, depth - 1)
              [] ty.def = "Sequence" -> DecodeSequence(ty, st, depth - 1)
              [] ty.def = "Array" -> DecodeArray(ty, st, depth - 1)
              [] ty.def = "Tuple" -> DecodeEach(ty.fields, st, depth - 1)
              [] ty.def = "Primitive" -> DecodePrimitive(ty.prim, st)
              [] ty.def = "Compact" -> DecodeCompact(type_id, ty, st)
              [] OTHER -> DecodeBitSequence(st)


\* decode_raw_event: walk the event's fields into a fresh buffer
decode_raw_event(em, in) ==
    DecodeEach(em.fields, Walk(in, <<>>, <<>>, Ok), MaxDepth)

(***************************************************************************)
(* The codec's own rules for a statically known type (derive(Decode) and   *)
(* derive(Encode)): what E::decode does in as_event, and how a value of E  *)
(* is put on the wire.  A type is named by its id in Types.  Values are    *)
(* numbers, byte strings and sequences of values; a variant's value is     *)
(* <<discriminant, fields>>; a bit sequence's is <<bit count, bytes>>.     *)
(***************************************************************************)
\* the unsigned primitive a Compact<T> is stored as
CompactTarget(t) ==
    IF t \notin DOMAIN Types THEN ""
    ELSE IF Types[t].def = "Primitive" THEN Types[t].prim
    ELSE IF /\ Types[t].def = "Composite"
            /\ Len(Types[t].fields) = 1
            /\ Types[t].fields[1] \in DOMAIN Types
            /\ Types[Types[t].fields[1]].def = "Primitive"
         THEN Types[Types[t].fields[1]].prim
    ELSE ""

\* char::from_u32
IsChar(v) ==
    /\ Len(v) <= 3
    /\ IntOf(v) <= 1114111
    /\ ~(IntOf(v) >= 55296 /\ IntOf(v) <= 57343)

\* bytes holding n bits
BytesOfBits(n) == (n + 7) \div 8

RECURSIVE TypedDecode(_, _), TypedDecodeEach(_, _, _), TypedDecodeTimes(_, _, _, _)

\* the fields in order; acc is the values read so far
TypedDecodeEach(ids, in, acc) ==
    IF ids = <<>> THEN Got(acc, in)
    ELSE LET d == TypedDecode(Head(ids), in)
         IN  IF d.ok THEN TypedDecodeEach(Tail(ids), d.rest, Append(acc, d.val))
             ELSE d

TypedDecodeTimes(elem, n, in, acc) ==
    IF n = 0 THEN Got(acc, in)
    ELSE LET d == TypedDecode(elem, in)
         IN  IF d.ok THEN TypedDecodeTimes(elem, n - 1, d.rest, Append(acc, d.val))
             ELSE d

TypedDecode(t, in) ==
    IF t \notin DOMAIN Types THEN Bad(in)
    ELSE
    LET ty == Types[t]
    IN  CASE ty.def \in {"Composite", "Tuple"} -> TypedDecodeEach(ty.fields, in, <<>>)
          [] ty.def = "Variant" ->
                LET d == DecodeFixed(1, in)
                    f == TypedDecodeEach(ty.variants[IntOf(d.val) + 1], d.rest, <<>>)
                IN  IF ~d.ok THEN d
                    ELSE IF IntOf(d.val) >= Len(ty.variants) THEN Bad(d.rest)
                    ELSE IF f.ok THEN Got(<<d.val, f.val>>, f.rest)
                    ELSE f
          [] ty.def = "Sequence" ->
                LET d == CompactDecode(4, in)
                IN  IF d.ok THEN TypedDecodeTimes(ty.elem, CountOf(d.val), d.rest, <<>>)
                    ELSE d
          [] ty.def = "Array" -> TypedDecodeTimes(ty.elem, ty.len, in, <<>>)
          [] ty.def = "Primitive" ->
                CASE ty.prim = "Bool" -> DecodeBool(in)
                  [] ty.prim = "Str" -> DecodeStr(in)
                  [] ty.prim = "Char" ->
                        LET d == DecodeFixed(4, in)
                        IN  IF d.ok /\ ~IsChar(d.val) THEN Bad(d.rest) ELSE d
                  [] OTHER -> DecodeFixed(WidthOf(ty.prim), in)
          [] ty.def = "Compact" ->
                IF CompactTarget(ty.elem) \in {"U8", "U16", "U32", "U64", "U128"}
                THEN CompactDecode(WidthOf(CompactTarget(ty.elem)), in)
                ELSE Bad(in)
          [] OTHER ->
                LET d == CompactDecode(4, in)
                    b == ReadExact(d.rest, BytesOfBits(CountOf(d.val)))
                IN  IF ~d.ok THEN d
                    ELSE IF b.ok THEN Got(<<d.val, b.val>>, b.rest)
                    ELSE b

RECURSIVE TypedEncode(_, _), TypedEncodeEach(_, _)

TypedEncodeEach(ids, vs) ==
    IF ids = <<>> THEN <<>>
    ELSE TypedEncode(Head(ids), Head(vs)) \o TypedEncodeEach(Tail(ids), Tail(vs))

TypedEncode(t, v) ==
    LET ty == Types[t]
    IN  CASE ty.def \in {"Composite", "Tuple"} -> TypedEncodeEach(ty.fields, v)
          [] ty.def = "Variant" ->
                EncodeFixed(1, v[1]) \o TypedEncodeEach(ty.variants[IntOf(v[1]) + 1], v[2])
          [] ty.def = "Sequence" ->
                CompactEncode(Trim(<<Len(v)>>))
                    \o TypedEncodeEach([i \in 1..Len(v) |-> ty.elem], v)
          [] ty.def = "Array" -> TypedEncodeEach([i \in 1..ty.len |-> ty.elem], v)
          [] ty.def = "Primitive" ->
                CASE ty.prim = "Bool" -> Pad(v, 1)
                  [] ty.prim = "Str" -> EncodeStr(v)
                  [] OTHER -> EncodeFixed(WidthOf(ty.prim), v)
          [] ty.def = "Compact" -> CompactEncode(v)
          [] OTHER -> CompactEncode(v[1]) \o v[2]

(***************************************************************************)
(* RawEvent and as_event.                                                  *)
(***************************************************************************)
RawEvent(p, pi, v, vi, data) ==
    [pallet |-> p, pallet_index |-> pi, variant |-> v, variant_index |-> vi,
     data |-> data]

\* an event type E: its PALLET and EVENT constants and the types of its fields
EventType(p, e, fs) == [PALLET |-> p, EVENT |-> e, fields |-> fs]

\* Result<Option<E>, CodecError>
Projection(t, v) == [tag |-> t, val |-> v]

\* E::decode(&mut &data[..]): the fields in declared order, from the start
DecodeAs(E, data) == TypedDecodeEach(E.fields, data, <<>>)

\* mutant of as_event: the data is decoded before the names are compared
as_event_decode_first(raw, E) ==
    IF ~DecodeAs(E, raw.data).ok THEN Projection("Err", <<>>)
    ELSE IF raw.pallet = E.PALLET /\ raw.variant = E.EVENT
         THEN Projection("Some", DecodeAs(E, raw.data).val)
         ELSE Projection("None", <<>>)

\* mutant of as_event: only the pallet name is compared
as_event_pallet_only(raw, E) ==
    IF raw.pallet = E.PALLET
    THEN IF DecodeAs(E, raw.data).ok
         THEN Projection("Some", DecodeAs(E, raw.data).val)
         ELSE Projection("Err", <<>>)
    ELSE Projection("None", <<>>)

\* RawEvent::as_event::<E>
as_event(raw, E) ==
    IF raw.pallet = E.PALLET /\ raw.variant = E.EVENT
    THEN IF DecodeAs(E, raw.data).ok
         THEN Projection("Some", DecodeAs(E, raw.data).val)
         ELSE Projection("Err", <<>>)
    ELSE Projection("None", <<>>)


(***************************************************************************)
(* The inputs decode_events is run on.                                     *)
(***************************************************************************)
\* sample values of the primitives
PrimitiveValues(p) ==
    CASE p = "Bool" -> {<<>>, <<1>>}
      [] p = "U8" -> {<<>>, <<17>>, <<255>>}
      [] p = "U16" -> {<<1>>, <<0, 128>>}
      [] p = "U32" -> {<<64>>, <<0, 0, 0, 128>>}
      [] p = "U128" -> {<<>>, <<232, 3>>, <<0, 0, 0, 64>>, Rep(255, 16)}
      [] p = "I16" -> {<<255, 255>>}
      [] p = "Str" -> {<<>>, <<97>>, <<195, 169>>}
      [] p = "Char" -> {<<97>>}
      [] p \in {"U256", "I256"} -> {Rep(1, 32)}
      [] OTHER -> {<<1>>}

\* the types that refer to themselves: 70..72 have no value, and records of
\* 73 are given as arbitrary bytes only
SelfReferring == {70, 71, 72, 73}

RECURSIVE Values(_), ValuesEach(_), ValuesTimes(_, _)

\* the value lists of a list of types
ValuesEach(ids) ==
    IF ids = <<>> THEN {<<>>}
    ELSE {<<v>> \o rest : v \in Values(Head(ids)), rest \in ValuesEach(Tail(ids))}

\* the lists of n values of one type; long arrays repeat one value
ValuesTimes(elem, n) ==
    IF n = 0 THEN {<<>>}
    ELSE IF n > MaxSeqLen THEN {[i \in 1..n |-> v] : v \in Values(elem)}
    ELSE {<<v>> \o rest : v \in Values(elem), rest \in ValuesTimes(elem, n - 1)}

\* sample values of a type; none when the type is not one a program can have
Values(t) ==
    IF t \notin DOMAIN Types \/ t \in SelfReferring THEN {}
    ELSE
    LET ty == Types[t]
    IN  CASE ty.def \in {"Composite", "Tuple"} -> ValuesEach(ty.fields)
          [] ty.def = "Variant" ->
                UNION {{<<Trim(<<k - 1>>), f>> : f \in ValuesEach(ty.variants[k])} :
                          k \in 1..Len(ty.variants)}
          [] ty.def = "Sequence" ->
                IF Values(ty.elem) = {} THEN {}
                ELSE UNION {ValuesTimes(ty.elem, n) : n \in 0..MaxSeqLen}
          [] ty.def = "Array" -> ValuesTimes(ty.elem, ty.len)
          [] ty.def = "Primitive" -> PrimitiveValues(ty.prim)
          [] ty.def = "Compact" ->
                IF CompactTarget(ty.elem) \in {"U8", "U16", "U32", "U64", "U128"}
                THEN PrimitiveValues(CompactTarget(ty.elem))
                ELSE {}
          [] OTHER -> {<<<<>>, <<>>>>, <<<<3>>, <<5>>>>}

\* Phase
ApplyExtrinsic(n) == [tag |-> "ApplyExtrinsic", index |-> n]
Finalization == [tag |-> "Finalization", index |-> <<>>]
Initialization == [tag |-> "Initialization", index |-> <<>>]

\* derive(Encode) of Phase
EncodePhase(ph) ==
    CASE ph.tag = "ApplyExtrinsic" -> <<0>> \o EncodeFixed(4, ph.index)
      [] ph.tag = "Finalization" -> <<1>>
      [] OTHER -> <<2>>

\* T::Hash is 32 bytes wide
HashLen == 32

\* one record as generated: the phase, the position of its event in Events,
\* the values of the event's fields and the number of topics
Record(ph, k, vs, nt) == [phase |-> ph, ev |-> k, values |-> vs, topics |-> nt]

\* the wire bytes of a record
EncodeRecord(rec) ==
    EncodePhase(rec.phase)
        \o <<Events[rec.ev].pallet_index, Events[rec.ev].variant_index>>
        \o TypedEncodeEach(Events[rec.ev].fields, rec.values)
        \o CompactEncode(Trim(<<rec.topics>>))
        \o Rep(170, rec.topics * HashLen)

RECURSIVE EncodeRecords(_)
EncodeRecords(recs) ==
    IF recs = <<>> THEN <<>>
    ELSE EncodeRecord(Head(recs)) \o EncodeRecords(Tail(recs))

\* the wire bytes of an event stream
EncodeStream(recs) == CompactEncode(Trim(<<Len(recs)>>)) \o EncodeRecords(recs)

\* phase and topic count of the generated single records
Settings ==
    {<<Initialization, 0>>, <<ApplyExtrinsic(<<1>>), 1>>, <<Finalization, 0>>}

\* every event, by position, with every list of values of its fields
EventValues ==
    UNION {{<<k, vs>> : vs \in ValuesEach(Events[k].fields)} : k \in 1..Len(Events)}

\* every single record of every event that has values
SingleRecords ==
    {Record(s[1], kv[1], kv[2], s[2]) : s \in Settings, kv \in EventValues}

\* the position in Events of the event with these indices
Pos(pi, vi) ==
    CHOOSE k \in 1..Len(Events) :
        Events[k].pallet_index = pi /\ Events[k].variant_index = vi

\* the events and values the streams of several records are made of:
\* Test::Opt, and Bad::Char, which fails to decode
StreamValues == {kv \in EventValues : kv[1] \in {Pos(1, 0), Pos(2, 0)}}

\* the two ways phases are given to the records of a stream
PhaseAt(pattern, i, n) ==
    IF pattern = 1 THEN ApplyExtrinsic(Trim(<<i - 1>>))
    ELSE IF i % 2 = 1 THEN ApplyExtrinsic(Trim(<<0, n - i>>))
    ELSE Finalization

\* the streams of n records
StreamsOf(n) ==
    {[i \in 1..n |-> Record(PhaseAt(pattern, i, n), kvs[i][1], kvs[i][2], i % 2)] :
        pattern \in {1, 2}, kvs \in [1..n -> StreamValues]}

\* the generated well-formed streams, as lists of records
Streams ==
    {<<>>} \cup {<<rec>> : rec \in SingleRecords}
           \cup UNION {StreamsOf(n) : n \in 2..MaxRecords}

\* bytes put after the last record of a generated stream: none, two bytes
\* that begin no record, and the bytes of one more record
Trailings == {<<>>, <<4, 255>>, <<2, 0, 0, 0>>}

\* the bytes arbitrary input is made of
Alphabet == {0, 1, 4, 255}

\* every byte string over Alphabet of at most MaxRawLen bytes
RawTails == UNION {[1..n -> Alphabet] : n \in 0..MaxRawLen}

\* count 1, Phase::Initialization, the indices of an event, arbitrary bytes
RawRecords ==
    {<<4, 2, Events[k].pallet_index, Events[k].variant_index>> \o t :
        k \in 1..Len(Events), t \in RawTails}

\* index pairs no event of the metadata has: an unknown pallet, and unknown
\* variants of known pallets
UnknownTags == {<<9, 9>>, <<5, 0>>, <<0, 2>>}

\* count 1, Phase::Initialization, an index pair without an event, arbitrary
\* bytes
UnknownRecords == {<<4, 2>> \o tag \o t : tag \in UnknownTags, t \in RawTails}

\* inputs that break off or are malformed in the count or the record header;
\* System::Remarked followed by a record of an unknown event; and Test::Pairs
\* with a sequence of two pairs of which the second is malformed
Malformed ==
    {<<>>, <<255>>, <<1, 0>>, <<4>>, <<4, 3, 0, 0, 0>>, <<4, 0, 1>>, <<4, 2>>,
     <<4, 2, 0>>, <<4, 2, 9, 9, 0>>, <<8, 2, 0, 0, 0>>, <<8, 2, 0, 0, 0, 2, 1, 0>>,
     <<8, 2, 0, 1, 17, 0, 0, 2, 9, 9, 7>>,
     <<4, 2, 1, 2, 8, 1, 17, 4, 0>>}

(***************************************************************************)
(* The steps of decode_events.                                             *)
(***************************************************************************)
\* derive(Decode) of Phase
DecodePhase(in) ==
    LET t == ReadByte(in)
        d == DecodeFixed(4, t.rest)
    IN  IF ~t.ok THEN t
        ELSE IF t.val[1] = 0
             THEN IF d.ok THEN Got(ApplyExtrinsic(d.val), d.rest) ELSE d
        ELSE IF t.val[1] = 1 THEN Got(Finalization, t.rest)
        ELSE IF t.val[1] = 2 THEN Got(Initialization, t.rest)
        ELSE Bad(t.rest)

\* mutant of DecodeTopics: the count is read and the hashes are left
DecodeTopics_count_only(in) ==
    LET c == CompactDecode(4, in)
    IN  IF c.ok /\ CountOf(c.val) > Len(c.rest) \div HashLen THEN Bad(c.rest) ELSE c

\* Vec::<T::Hash>::decode: a Compact<u32> count and that many hashes
DecodeTopics(in) ==
    LET c == CompactDecode(4, in)
        have == Len(c.rest) \div HashLen
    IN  IF ~c.ok THEN c
        ELSE IF CountOf(c.val) > have THEN Bad(Drop(c.rest, have * HashLen))
        ELSE Got(c.val, Drop(c.rest, CountOf(c.val) * HashLen))

NoPhase == [tag |-> "", index |-> <<>>]
NoRawEvent == RawEvent("", 0, "", 0, <<>>)
NoEventType == EventType("", "", <<>>)

\* the RPC layer's NumberOrHex on its way: no value, no parse, no conversion
NoNumber == [tag |-> "", val |-> <<>>]
NotParsed == [ok |-> FALSE, val |-> NoNumber]
NoConversion == [ok |-> FALSE, val |-> <<0>>]

Rpc(p, x, text, back, target, into) ==
    [pc |-> p, x |-> x, text |-> text, back |-> back, target |-> target,
     into |-> into]

\* no NumberOrHex is followed
NoRpc == Rpc("idle", NoNumber, <<>>, NotParsed, 0, NoConversion)

\* what the caller of decode_events holds: nothing yet, Ok(events), Err(err),
\* or nothing because the call did not return
Returned(res, events) == [res |-> res, events |-> events]
NotReturned == Returned(Outcome("", "", 0, 0, ""), <<>>)

Init ==
    /\ metadata = Snapshot
    /\ \/ \E recs \in Streams, t \in Trailings :
            /\ wire = recs
            /\ trailing = t
            /\ orig = EncodeStream(recs) \o t
       \/ \E b \in RawRecords \cup UnknownRecords \cup Malformed :
            /\ wire = <<>>
            /\ trailing = <<>>
            /\ orig = b
    /\ input = orig
    /\ pc = "start"
    /\ len = 0
    /\ r = <<>>
    /\ phase = NoPhase
    /\ event_metadata = NoEvent
    /\ event_data = <<>>
    /\ walked = <<>>
    /\ ret = NotReturned
    /\ proj = [raw |-> NoRawEvent, E |-> NoEventType, out |-> Projection("", <<>>)]
    /\ calls = <<>>
    /\ rpc = NoRpc

\* `return Err(err)` and `?`: the caller gets the error and nothing else
ReturnErr(err) == Returned(err, <<>>)

\* `Ok(r)`
ReturnOk(events) == Returned(Ok, events)

\* one decode_events call: the bytes it was given, its cursor, its locals and
\* what its caller holds
Call(o, in, p, n, vec, ph, em, data, trace, res) ==
    [orig |-> o, input |-> in, pc |-> p, len |-> n, r |-> vec, phase |-> ph,
     event_metadata |-> em, event_data |-> data, walked |-> trace, ret |-> res]

\* a call at its entry, given the bytes b
NewCall(b) ==
    Call(b, b, "start", 0, <<>>, NoPhase, NoEvent, <<>>, <<>>, NotReturned)

\* line 95: let compact_len = <Compact<u32>>::decode(input)?
CountStep(s) ==
    LET d == CompactDecode(4, s.input)
    IN  IF d.ok
        THEN [s EXCEPT !.input = d.rest, !.len = CountOf(d.val), !.pc = "loop"]
        ELSE [s EXCEPT !.input = d.rest, !.pc = "done",
                       !.ret = ReturnErr(CodecError)]

\* lines 102-115: the phase, the two index bytes, the event lookup and the
\* fresh buffer
HeaderStep(s) ==
    LET ph == DecodePhase(s.input)
        pi == ReadByte(ph.rest)
        vi == ReadByte(pi.rest)
        pallet_index == pi.val[1]
        variant_index == vi.val[1]
        at == EventAt(pallet_index, variant_index)
    IN  IF ~ph.ok \/ ~pi.ok \/ ~vi.ok
        THEN [s EXCEPT !.input = (IF ~ph.ok THEN ph.rest
                                  ELSE IF ~pi.ok THEN pi.rest ELSE vi.rest),
                       !.pc = "done",
                       !.ret = ReturnErr(CodecError)]
        ELSE IF at = {}
        THEN [s EXCEPT !.input = vi.rest,
                       !.pc = "done",
                       !.ret = ReturnErr(EventNotFound(pallet_index, variant_index)),
                       !.phase = ph.val]
        ELSE [s EXCEPT !.input = vi.rest,
                       !.pc = "fields",
                       !.phase = ph.val,
                       !.event_metadata = metadata.events[CHOOSE k \in at : TRUE],
                       !.event_data = <<>>,
                       !.walked = <<>>]

\* mutant of AfterWalk: when the walk fails the cursor is put back to where
\* the walk began
AfterWalk_rewinds(s, st) ==
    IF st.res = Ok
    THEN [s EXCEPT !.input = st.in, !.event_data = st.out,
                   !.walked = st.trace, !.pc = "topics"]
    ELSE [s EXCEPT !.event_data = st.out,
                   !.walked = st.trace, !.pc = "done",
                   !.ret = ReturnErr(st.res)]

\* lines 116-118 and 135: decode_raw_event into event_data; an error is
\* returned, a panic ends the call without a return value.
\* lines 117-118 and 135: `match result`; st is the walker as it returned
AfterWalk(s, st) ==
    IF st.res = Ok
    THEN [s EXCEPT !.input = st.in, !.event_data = st.out,
                   !.walked = st.trace, !.pc = "topics"]
    ELSE [s EXCEPT !.input = st.in, !.event_data = st.out,
                   !.walked = st.trace, !.pc = "done",
                   !.ret = ReturnErr(st.res)]

\* line 116: let result = self.decode_raw_event(event_metadata, input,
\* &mut event_data)
FieldsStep(s) == AfterWalk(s, decode_raw_event(s.event_metadata, s.input))

\* mutant of Push: the entry is put at the front
Push_front(vec, entry) == <<entry>> \o vec

\* line 137: r.push((phase.clone(), raw))
Push(vec, entry) == Append(vec, entry)

\* mutant of BuildRawEvent: the two indices change places
BuildRawEvent_swapped(em, data) ==
    [pallet |-> em.pallet, pallet_index |-> em.variant_index, variant |-> em.event,
     variant_index |-> em.pallet_index, data |-> data]

\* lines 121-127: the RawEvent of the record
BuildRawEvent(em, data) ==
    RawEvent(em.pallet, em.pallet_index, em.event, em.variant_index, data)

\* lines 119-137: build the RawEvent, read the topics and drop them, push
TopicsStep(s) ==
    LET event == BuildRawEvent(s.event_metadata, s.event_data)
        topics == DecodeTopics(s.input)
    IN  IF topics.ok
        THEN [s EXCEPT !.input = topics.rest,
                       !.r = Push(s.r, [phase |-> s.phase, event |-> event]),
                       !.pc = "loop"]
        ELSE [s EXCEPT !.input = topics.rest, !.pc = "done",
                       !.ret = ReturnErr(CodecError)]

\* mutant of ReturnStep: input left over after the last record is an error
ReturnStep_all_consumed(s) ==
    IF s.input = <<>> THEN [s EXCEPT !.pc = "done", !.ret = ReturnOk(s.r)]
    ELSE [s EXCEPT !.pc = "done", !.ret = ReturnErr(CodecError)]

\* line 139: Ok(r)
ReturnStep(s) == [s EXCEPT !.pc = "done", !.ret = ReturnOk(s.r)]

\* the call whose steps the single-call specification follows
Self ==
    Call(orig, input, pc, len, r, phase, event_metadata, event_data, walked, ret)

\* the call followed goes on as `next`
Becomes(next) ==
    \E s \in {next} :
        /\ input' = s.input
        /\ pc' = s.pc
        /\ len' = s.len
        /\ r' = s.r
        /\ phase' = s.phase
        /\ event_metadata' = s.event_metadata
        /\ event_data' = s.event_data
        /\ walked' = s.walked
        /\ ret' = s.ret
        /\ UNCHANGED <<metadata, orig, wire, trailing, proj, calls, rpc>>

\* line 95
DecodeCount == pc = "start" /\ \E s \in {Self} : Becomes(CountStep(s))

\* lines 100-115: one more record to read
DecodeRecordHeader ==
    pc = "loop" /\ Len(r) < len /\ \E s \in {Self} : Becomes(HeaderStep(s))

\* lines 116-118, 135
DecodeFields == pc = "fields" /\ \E s \in {Self} : Becomes(FieldsStep(s))

\* lines 119-137
DecodeTopicsAndPush ==
    pc = "topics" /\ \E s \in {Self} : Becomes(TopicsStep(s))

\* line 139: the loop is over
Return ==
    pc = "loop" /\ Len(r) = len /\ \E s \in {Self} : Becomes(ReturnStep(s))

\* the event types the caller probes with: one per event of the metadata that
\* a program can declare, and three whose fields differ from the metadata's
EventTypes ==
    {EventType(Events[k].pallet, Events[k].event, Events[k].fields) :
        k \in {kv[1] : kv \in EventValues}}
    \cup {EventType("Balances", "Transfer", <<21, 22>>),
          EventType("Test", "Opt", <<4>>),
          EventType("Test", "Struct", <<2, 1>>)}

\* the caller projects one of the events it received (as_event keeps no
\* state, so one projection is followed per call of decode_events)
AsEvent ==
    /\ pc = "done"
    /\ proj.out.tag = ""
    /\ \E i \in 1..Len(ret.events), E \in EventTypes :
          proj' = [raw |-> ret.events[i].event, E |-> E,
                   out |-> as_event(ret.events[i].event, E)]
    /\ UNCHANGED <<metadata, orig, wire, trailing, input, pc, len, r, phase,
                   event_metadata, event_data, walked, ret, calls, rpc>>

Next ==
    \/ DecodeCount
    \/ DecodeRecordHeader
    \/ DecodeFields
    \/ DecodeTopicsAndPush
    \/ Return
    \/ AsEvent

Spec == Init /\ [][Next]_vars

(***************************************************************************)
(* Several threads call decode_events on one decoder (&self), each with    *)
(* its own `input`; a step of the model is one step of one of the calls.   *)
(***************************************************************************)
\* the inputs of the concurrent calls: the transfer scenario, a stream of
\* two records, a record that fails in the walk, one that panics, and an
\* input that breaks off
ConcurrentInputs ==
    { <<4, 2, 5, 2>> \o Rep(0, 32) \o Rep(17, 32) \o <<161, 15>> \o <<0>>,
      <<8, 0, 1, 0, 0, 0, 1, 0, 1, 17, 0, 1, 1, 0, 0, 0, 9>>,
      <<4, 2, 2, 3, 1, 0>>,
      <<4, 2, 3, 0, 0, 0>>,
      <<8, 2, 0, 0, 0, 2, 1, 0>> }

\* mutant of Locals: the cursor is one for all calls, that of the first call
Locals_shared_cursor(c) == [calls[c] EXCEPT !.input = calls[1].input]

\* what a step of call c works on: its own argument `input` and its own
\* local variables (lines 93-99, 102-104, 115)
Locals(c) == calls[c]

\* mutant of Continues: a call that ends takes the first event out of the
\* registry
Continues_registry_pruned(c, s) ==
    /\ calls' = [calls EXCEPT ![c] = s]
    /\ metadata' = (IF s.pc = "done"
                    THEN [metadata EXCEPT !.events = Tail(metadata.events)]
                    ELSE metadata)
    /\ UNCHANGED <<orig, wire, trailing, input, pc, len, r, phase,
                   event_metadata, event_data, walked, ret, proj, rpc>>

\* call c goes on as s; the other calls are where they were
Continues(c, s) ==
    /\ calls' = [calls EXCEPT ![c] = s]
    /\ UNCHANGED <<metadata, orig, wire, trailing, input, pc, len, r, phase,
                   event_metadata, event_data, walked, ret, proj, rpc>>

CallDecodeCount(c) ==
    Locals(c).pc = "start" /\ Continues(c, CountStep(Locals(c)))

CallDecodeRecordHeader(c) ==
    /\ Locals(c).pc = "loop"
    /\ Len(Locals(c).r) < Locals(c).len
    /\ Continues(c, HeaderStep(Locals(c)))

CallDecodeFields(c) ==
    Locals(c).pc = "fields" /\ Continues(c, FieldsStep(Locals(c)))

CallDecodeTopicsAndPush(c) ==
    Locals(c).pc = "topics" /\ Continues(c, TopicsStep(Locals(c)))

CallReturn(c) ==
    /\ Locals(c).pc = "loop"
    /\ Len(Locals(c).r) = Locals(c).len
    /\ Continues(c, ReturnStep(Locals(c)))

InitConcurrent ==
    /\ metadata = Snapshot
    /\ calls \in [1..MaxCalls -> {NewCall(b) : b \in ConcurrentInputs}]
    /\ orig = <<>>
    /\ wire = <<>>
    /\ trailing = <<>>
    /\ input = <<>>
    /\ pc = "start"
    /\ len = 0
    /\ r = <<>>
    /\ phase = NoPhase
    /\ event_metadata = NoEvent
    /\ event_data = <<>>
    /\ walked = <<>>
    /\ ret = NotReturned
    /\ proj = [raw |-> NoRawEvent, E |-> NoEventType, out |-> Projection("", <<>>)]
    /\ rpc = NoRpc

NextConcurrent ==
    \E c \in 1..MaxCalls :
        \/ CallDecodeCount(c)
        \/ CallDecodeRecordHeader(c)
        \/ CallDecodeFields(c)
        \/ CallDecodeTopicsAndPush(c)
        \/ CallReturn(c)

SpecConcurrent == InitConcurrent /\ [][NextConcurrent]_vars


(***************************************************************************)
(* NumberOrHex (src/subxt/src/rpc/rpc.rs): a u64 given as a JSON number or *)
(* a U256 given as a hex string.  Values are numbers as above; JSON text   *)
(* is a sequence of characters.                                            *)
(***************************************************************************)
\* bytes of a u32, a u64, a u128 and a U256
U32Bytes == 4
U64Bytes == 8
U128Bytes == 16
U256Bytes == 32

\* NumberOrHex::Number(n) and NumberOrHex::Hex(h)
Number(n) == [tag |-> "Number", val |-> n]
Hex(h) == [tag |-> "Hex", val |-> h]

Reverse(s) == [i \in 1..Len(s) |-> s[Len(s) + 1 - i]]

\* the characters of the digits 0..15
HexDigits ==
    <<"0", "1", "2", "3", "4", "5", "6", "7", "8", "9",
      "a", "b", "c", "d", "e", "f">>

DigitOf(d) == HexDigits[d + 1]

IsDigit(c, base) == \E d \in 0..(base - 1) : HexDigits[d + 1] = c

ValueOf(c) == CHOOSE d \in 0..15 : HexDigits[d + 1] = c

Quote == "\""

RECURSIVE LongDiv(_, _, _)
\* v divided by m, from the highest byte down: quotient and remainder
LongDiv(v, m, rem) ==
    IF v = <<>> THEN [q |-> <<>>, r |-> rem]
    ELSE LET cur == rem * 256 + v[Len(v)]
             low == LongDiv(Take(v, Len(v) - 1), m, cur % m)
         IN  [q |-> Append(low.q, cur \div m), r |-> low.r]

RECURSIVE DecimalOf(_)
\* the decimal digits of a number above 0, highest first
DecimalOf(v) ==
    IF Trim(v) = <<>> THEN <<>>
    ELSE Append(DecimalOf(LongDiv(Trim(v), 10, 0).q),
                DigitOf(LongDiv(Trim(v), 10, 0).r))

\* serde_json's output for a u64
ToDecimal(n) == IF Trim(n) = <<>> THEN <<"0">> ELSE DecimalOf(n)

\* the two hex digits of each byte
NibblesOf(bytes) ==
    [i \in 1..(2 * Len(bytes)) |->
        IF i % 2 = 1 THEN bytes[(i + 1) \div 2] \div 16
        ELSE bytes[i \div 2] % 16]

\* U256's Serialize: big-endian bytes without the leading zero bytes, in hex
\* without a leading zero digit, "0x0" for zero
ToHex(h) ==
    LET ns == NibblesOf(Reverse(Trim(h)))
        kept == IF ns # <<>> /\ ns[1] = 0 THEN Tail(ns) ELSE ns
    IN  IF Trim(h) = <<>> THEN <<Quote, "0", "x", "0", Quote>>
        ELSE <<Quote, "0", "x">> \o [i \in 1..Len(kept) |-> DigitOf(kept[i])]
                 \o <<Quote>>

\* serde_json::to_string of a NumberOrHex: untagged, the variant's own form
to_string(x) ==
    IF x.tag = "Number" THEN ToDecimal(x.val) ELSE ToHex(x.val)

RECURSIVE MulAdd(_, _, _)
\* v * m + carry on little-endian bytes
MulAdd(v, m, carry) ==
    IF v = <<>> THEN (IF carry = 0 THEN <<>> ELSE <<carry>>)
    ELSE <<(v[1] * m + carry) % 256>>
             \o MulAdd(Tail(v), m, (v[1] * m + carry) \div 256)

RECURSIVE ParseDigits(_, _)
\* the number the decimal digits stand for
ParseDigits(cs, acc) ==
    IF cs = <<>> THEN Trim(acc)
    ELSE ParseDigits(Tail(cs), MulAdd(acc, 10, ValueOf(Head(cs))))

\* the value serde buffers for an untagged enum
Content(k, v) == [kind |-> k, val |-> v]
Invalid == Content("Invalid", <<>>)

\* serde_json's parse of the whole text into a buffered value: a string
\* without escapes, a number (an integer above u64 and a negative one are
\* not a u64), or a syntax error
ParseValue(text) ==
    IF text = <<>> THEN Invalid
    ELSE IF text[1] = Quote THEN
        IF /\ Len(text) >= 2
           /\ text[Len(text)] = Quote
           /\ \A i \in 2..(Len(text) - 1) : text[i] # Quote
        THEN Content("Str", SubSeq(text, 2, Len(text) - 1))
        ELSE Invalid
    ELSE IF text[1] = "-" THEN
        IF /\ Len(text) >= 2
           /\ \A i \in 2..Len(text) : IsDigit(text[i], 10)
           /\ (text[2] = "0" => Len(text) = 2)
        THEN Content("Other", <<>>)
        ELSE Invalid
    ELSE IF /\ \A i \in 1..Len(text) : IsDigit(text[i], 10)
            /\ (text[1] = "0" => Len(text) = 1)
         THEN IF Len(ParseDigits(text, <<>>)) <= U64Bytes
              THEN Content("U64", ParseDigits(text, <<>>))
              ELSE Content("Other", <<>>)
    ELSE Invalid

\* the bytes of a run of hex digits, highest first; an odd run begins with a
\* digit alone
BytesOfHex(cs) ==
    LET ns == IF Len(cs) % 2 = 1 THEN <<"0">> \o cs ELSE cs
    IN  [i \in 1..(Len(ns) \div 2) |->
            ValueOf(ns[2 * i - 1]) * 16 + ValueOf(ns[2 * i])]

Parsed(v) == [ok |-> TRUE, val |-> v]

\* U256's Deserialize: "0x", then 1 to 64 hex digits
ParseHex(str) ==
    IF /\ Len(str) > 2
       /\ Len(str) <= 2 + 2 * U256Bytes
       /\ str[1] = "0"
       /\ str[2] = "x"
       /\ \A i \in 3..Len(str) : IsDigit(str[i], 16)
    THEN Parsed(Trim(Reverse(BytesOfHex(Drop(str, 2)))))
    ELSE [ok |-> FALSE, val |-> <<>>]

\* mutant of from_str: a hex string is taken for a Number when it fits
from_str_number_first(text) ==
    LET c == ParseValue(text)
    IN  IF c.kind = "U64" THEN Parsed(Number(c.val))
        ELSE IF c.kind = "Str" /\ ParseHex(c.val).ok
             THEN IF Len(ParseHex(c.val).val) <= U64Bytes
                  THEN Parsed(Number(ParseHex(c.val).val))
                  ELSE Parsed(Hex(ParseHex(c.val).val))
        ELSE NotParsed

\* serde_json::from_str::<NumberOrHex>: untagged, so Number(u64) is tried on
\* the buffered value first and Hex(U256) second
from_str(text) ==
    LET c == ParseValue(text)
    IN  IF c.kind = "U64" THEN Parsed(Number(c.val))
        ELSE IF c.kind = "Str" /\ ParseHex(c.val).ok
             THEN Parsed(Hex(ParseHex(c.val).val))
        ELSE NotParsed

\* NumberOrHex::into_u256: n.into() for a Number, the value of a Hex; a U256
\* is four u64 limbs, lowest first
into_u256(x) == Pad(x.val, U256Bytes)

Limb(u, i) == SubSeq(u, U64Bytes * i + 1, U64Bytes * (i + 1))

\* U256::fits_word
fits_word(u) == \A i \in 1..3 : Limb(u, i) = Zeros(U64Bytes)

Converted(v) == [ok |-> TRUE, val |-> v]
TryFromIntError == [ok |-> FALSE, val |-> <<>>]

\* mutant of TryIntoWord: the lowest limb is cast without a check
TryIntoWord_cast(u, w) == Converted(Trim(Take(Limb(u, 0), w)))

\* TryFrom<U256> for u32 and u64 (w bytes): the value must be in the lowest
\* limb and not above the target's maximum
TryIntoWord(u, w) ==
    IF ~fits_word(u) \/ (\E i \in (w + 1)..U64Bytes : Limb(u, 0)[i] # 0)
    THEN TryFromIntError
    ELSE Converted(Trim(Take(Limb(u, 0), w)))

\* TryFrom<U256> for u128: the two highest limbs must be zero
TryIntoU128(u) ==
    IF \E i \in 2..3 : Limb(u, i) # Zeros(U64Bytes) THEN TryFromIntError
    ELSE Converted(Trim(Limb(u, 0) \o Limb(u, 1)))

\* TryFrom<NumberOrHex> for u32, u64 and u128
try_from(x, w) ==
    IF w = U128Bytes THEN TryIntoU128(into_u256(x))
    ELSE TryIntoWord(into_u256(x), w)

\* the widths of the targets of the conversions
Targets == {U32Bytes, U64Bytes, U128Bytes}

\* sample numbers of every length up to 32 bytes: the largest and the
\* smallest of the length, and two of the program's tests
SampleNumbers ==
    {Rep(255, n) : n \in 0..U256Bytes}
        \cup {Zeros(n - 1) \o <<1>> : n \in 1..U256Bytes}
        \cup {<<5>>, <<16, 39>>, <<52, 18>>, <<0, 16, 165, 212, 232>>}

\* the values the RPC layer handles
NumberOrHexValues ==
    {Number(n) : n \in {v \in SampleNumbers : Len(v) <= U64Bytes}}
        \cup {Hex(h) : h \in SampleNumbers}

\* JSON texts that come from elsewhere: an integer above u64, a negative
\* one, hex strings with leading zeros, without digits and too long, a
\* leading zero, a string that is not closed, nothing
ForeignTexts ==
    { <<"1", "8", "4", "4", "6", "7", "4", "4", "0", "7", "3", "7", "0", "9",
        "5", "5", "1", "6", "1", "6">>,
      <<"-", "5">>,
      <<Quote, "0", "x", "0", "0", "1", "2", Quote>>,
      <<Quote, "0", "x", Quote>>,
      <<Quote, "0", "x">> \o [i \in 1..65 |-> "f"] \o <<Quote>>,
      <<"0", "5">>,
      <<Quote, "0", "x", "1">>,
      <<>> }

InitRpc ==
    /\ metadata = Snapshot
    /\ orig = <<>>
    /\ wire = <<>>
    /\ trailing = <<>>
    /\ input = <<>>
    /\ pc = "idle"
    /\ len = 0
    /\ r = <<>>
    /\ phase = NoPhase
    /\ event_metadata = NoEvent
    /\ event_data = <<>>
    /\ walked = <<>>
    /\ ret = NotReturned
    /\ proj = [raw |-> NoRawEvent, E |-> NoEventType, out |-> Projection("", <<>>)]
    /\ calls = <<>>
    /\ \/ \E x \in NumberOrHexValues :
            rpc = Rpc("value", x, <<>>, NotParsed, 0, NoConversion)
       \/ \E t \in ForeignTexts :
            rpc = Rpc("text", NoNumber, t, NotParsed, 0, NoConversion)

Decoder == <<metadata, orig, wire, trailing, input, pc, len, r, phase,
             event_metadata, event_data, walked, ret, proj, calls>>

\* serde_json::to_string(&x)
Serialize ==
    /\ rpc.pc = "value"
    /\ rpc' = [rpc EXCEPT !.pc = "text", !.text = to_string(rpc.x)]
    /\ UNCHANGED Decoder

\* serde_json::from_str(text)
Deserialize ==
    /\ rpc.pc = "text"
    /\ rpc' = [rpc EXCEPT !.pc = "parsed", !.back = from_str(rpc.text)]
    /\ UNCHANGED Decoder

\* u32::try_from(x), u64::try_from(x), u128::try_from(x)
TryInto(w) ==
    /\ rpc.pc = "value"
    /\ rpc.target = 0
    /\ rpc' = [rpc EXCEPT !.target = w, !.into = try_from(rpc.x, w)]
    /\ UNCHANGED Decoder

NextRpc ==
    \/ Serialize
    \/ Deserialize
    \/ \E w \in Targets : TryInto(w)

SpecRpc == InitRpc /\ [][NextRpc]_vars


(***************************************************************************)
(* Properties.                                                             *)
(***************************************************************************)
\* the input is a generated stream: the encoding of the records in wire,
\* followed by the trailing bytes
WellFormed == orig = EncodeStream(wire) \o trailing

\* the children a type definition refers to
Children(ty) ==
    {ty.fields[i] : i \in 1..Len(ty.fields)}
        \cup UNION {{ty.variants[k][i] : i \in 1..Len(ty.variants[k])} :
                       k \in 1..Len(ty.variants)}
        \cup (IF ty.def \in {"Sequence", "Array", "Compact"} THEN {ty.elem} ELSE {})

RECURSIVE MentionsWithin(_, _, _)
\* type t is, or refers within d levels to, a primitive of one of the kinds
\* (or a bit sequence, for the kind "BitSequence")
MentionsWithin(t, kinds, d) ==
    /\ t \in DOMAIN Types
    /\ \/ Types[t].def = "Primitive" /\ Types[t].prim \in kinds
       \/ Types[t].def = "BitSequence" /\ "BitSequence" \in kinds
       \/ d > 0 /\ \E c \in Children(Types[t]) : MentionsWithin(c, kinds, d - 1)

\* the same at any depth the walker follows
Mentions(t, kinds) == MentionsWithin(t, kinds, MaxDepth)

\* some field of the schema mentions one of the kinds
SchemaMentions(fields, kinds) ==
    \E i \in 1..Len(fields) : Mentions(fields[i], kinds)

UnsupportedKinds == {"Char", "U256", "I256"}

\* the event type a program declares for the event at position k
TypeOfEvent(k) == EventType(Events[k].pallet, Events[k].event, Events[k].fields)

\* the stream holds one record, and if the caller projected, it projected the
\* one event onto the record's own event type
OneRecordRoundTrip ==
    /\ pc = "done"
    /\ ret.res = Ok
    /\ Len(ret.events) = 1
    /\ proj.out.tag # "" =>
          (proj.E = TypeOfEvent(wire[1].ev) =>
              proj.out = Projection("Some", wire[1].values))

\* C1 as stated: every well-formed stream of one record of any event type that
\* has a schema decodes, and as_event with that type gives back the value.
C1_RoundTripAnyType ==
    (pc = "done" /\ Len(wire) = 1 /\ WellFormed) => OneRecordRoundTrip

\* C1 (amended): for every event type whose field types mention no Char, U256,
\* I256 or BitSequence, a well-formed stream of one record of a value v decodes
\* and as_event with that type returns Ok(Some(v)).
C1_RoundTrip ==
    (/\ pc = "done"
     /\ Len(wire) = 1
     /\ WellFormed
     /\ ~SchemaMentions(Events[wire[1].ev].fields, UnsupportedKinds \cup {"BitSequence"}))
    => OneRecordRoundTrip

\* a Compact<Perbill>, a variant and a sequence went round
C1_Witness ==
    /\ WellFormed
    /\ Len(wire) = 1
    /\ proj.out.tag = "Some"
    /\ proj.E = TypeOfEvent(wire[1].ev)
    /\ proj.E = EventType("Test", "Pairs", <<35>>)
    /\ Len(proj.out.val[1]) = 2
    /\ wire[1].phase.tag = "ApplyExtrinsic"

\* the input of the concrete scenario
ScenarioInput ==
    <<4, 2, 5, 2>> \o Rep(0, 32) \o Rep(17, 32) \o <<161, 15>> \o <<0>>

\* C2: the Balances::Transfer scenario yields exactly one pair, with the names
\* and indices of the event and the 64 account bytes followed by compact 1000.
C2_Scenario ==
    (orig = ScenarioInput /\ pc = "done") =>
        ret = Returned(Ok,
                  << [phase |-> Initialization,
                      event |-> RawEvent("Balances", 5, "Transfer", 2,
                                    Rep(0, 32) \o Rep(17, 32) \o <<161, 15>>)] >>)

C2_Witness ==
    orig = ScenarioInput /\ pc = "done" /\ Len(ret.events) = 1

\* C3: a successful call returns as many entries as the count prefix says, and
\* entry i is the phase and the event of record i of the wire (compared when
\* the call has returned; as_event changes neither).
C3_OrderPreserved ==
    (pc = "done" /\ ret.res = Ok) =>
        /\ Len(ret.events) = CountOf(CompactDecode(4, orig).val)
        /\ (proj.out.tag = "" /\ WellFormed) =>
              /\ Len(ret.events) = Len(wire)
              /\ \A i \in 1..Len(wire) :
                    /\ ret.events[i].phase = wire[i].phase
                    /\ ret.events[i].event =
                          BuildRawEvent(Events[wire[i].ev],
                              TypedEncodeEach(Events[wire[i].ev].fields, wire[i].values))

\* three records with different phases and payloads came out in order
C3_Witness ==
    /\ pc = "done"
    /\ ret.res = Ok
    /\ WellFormed
    /\ Len(ret.events) = 3
    /\ ret.events[1].phase = ApplyExtrinsic(<<0, 2>>)
    /\ ret.events[2].phase = Finalization
    /\ ret.events[3].phase = ApplyExtrinsic(<<>>)
    /\ ret.events[1].event.data # ret.events[3].event.data

\* C4: a failure in any record makes decode_events return Err, and the caller
\* gets none of the events decoded before it.
C4_AtomicFailure ==
    pc = "done" =>
        \/ ret.res = Ok /\ Len(ret.events) = len
        \/ ret.res.tag = "Err" /\ ret.events = <<>>

\* whether it returns or not, no failure delivers events
C4_NoPartialList ==
    pc = "done" =>
        \/ ret.res = Ok /\ Len(ret.events) = len
        \/ ret.res.tag \in {"Err", "Panic", "Abort"} /\ ret.events = <<>>

\* a second record failed after the first was decoded
C4_SecondRecordFails ==
    pc = "done" /\ Len(r) >= 1 /\ ret.res.tag = "Err" /\ ret.events = <<>>

\* C5: when the names differ as_event returns Ok(None), whatever the data.
C5_MismatchIsNone ==
    (/\ proj.out.tag # ""
     /\ (proj.raw.pallet # proj.E.PALLET \/ proj.raw.variant # proj.E.EVENT))
    => proj.out = Projection("None", <<>>)

\* the names differ and the data does not decode as E
C5_Witness ==
    /\ proj.out.tag = "None"
    /\ proj.raw.pallet = proj.E.PALLET
    /\ proj.raw.variant # proj.E.EVENT
    /\ ~DecodeAs(proj.E, proj.raw.data).ok

\* C6: Some(x) only with both names equal, x being E's decode of the data;
\* Err only with both names equal and the data not decoding as E.
C6_Projection ==
    proj.out.tag # "" =>
        /\ proj.out.tag \in {"Some", "Err", "None"}
        /\ proj.out.tag = "Some" =>
              /\ proj.raw.pallet = proj.E.PALLET
              /\ proj.raw.variant = proj.E.EVENT
              /\ DecodeAs(proj.E, proj.raw.data).ok
              /\ proj.out.val = DecodeAs(proj.E, proj.raw.data).val
        /\ proj.out.tag = "Err" =>
              /\ proj.raw.pallet = proj.E.PALLET
              /\ proj.raw.variant = proj.E.EVENT
              /\ ~DecodeAs(proj.E, proj.raw.data).ok

\* the names are equal and the data does not decode as E (schema drift)
C6_Witness ==
    /\ proj.out.tag = "Err"
    /\ proj.raw.pallet = proj.E.PALLET
    /\ proj.raw.variant = proj.E.EVENT


\* C7 as stated: a call that came to a record of an event whose schema
\* mentions Char, U256 or I256 ends in UnsupportedPrimitive.
C7_UnsupportedAnywhere ==
    (/\ pc = "done"
     /\ event_metadata # NoEvent
     /\ SchemaMentions(event_metadata.fields, UnsupportedKinds))
    => ret.res.kind = "UnsupportedPrimitive"

\* the id resolves to a primitive of one of the kinds
IsPrimitiveOf(id, kinds) ==
    /\ Resolves(id)
    /\ resolve_type(id).def = "Primitive"
    /\ resolve_type(id).prim \in kinds

\* C7 (amended): whenever the walk of a record's fields enters a Char, U256 or
\* I256 primitive, the walk stops there and decode_events fails with
\* UnsupportedPrimitive of that kind, for every input; so every record of an
\* event whose first field is such a primitive fails with it.  No other walk
\* fails with UnsupportedPrimitive: a type the walk does not enter (behind a
\* variant not taken, in an empty sequence or array, inside a Compact, after a
\* field that fails) raises none.
C7_UnsupportedWhenReached ==
    /\ (pc = "done" /\ ret.res.kind = "UnsupportedPrimitive") =>
          /\ walked # <<>>
          /\ IsPrimitiveOf(walked[Len(walked)], UnsupportedKinds)
    /\ (\E k \in 1..Len(walked) : IsPrimitiveOf(walked[k], UnsupportedKinds)) =>
          /\ pc = "done"
          /\ IsPrimitiveOf(walked[Len(walked)], UnsupportedKinds)
          /\ ret = Returned(UnsupportedPrimitive(resolve_type(walked[Len(walked)]).prim),
                            <<>>)
    /\ (/\ event_metadata # NoEvent
        /\ event_metadata.fields # <<>>
        /\ IsPrimitiveOf(event_metadata.fields[1], UnsupportedKinds)
        /\ pc # "fields") =>
          ret.res = UnsupportedPrimitive(resolve_type(event_metadata.fields[1]).prim)

\* a Char reached through a variant, after the discriminant was read
C7_Witness ==
    /\ pc = "done"
    /\ walked = <<42, 7>>
    /\ event_data = <<1>>
    /\ ret.res = UnsupportedPrimitive("Char")

\* the schema of a decoded event
SchemaOf(raw) ==
    metadata.events[CHOOSE k \in EventAt(raw.pallet_index, raw.variant_index) : TRUE].fields

\* C8 as stated: no record of an event whose schema mentions a BitSequence is
\* ever decoded, so no event returned to the caller is of such a schema.
C8_BitSequenceAnywhere ==
    \A i \in 1..Len(ret.events) :
        ~SchemaMentions(SchemaOf(ret.events[i].event), {"BitSequence"})

\* C8 (amended): whenever the walk of a record's fields enters a BitSequence
\* type, the walk stops there, the call does not succeed and delivers no event,
\* for every input, and the outcome is the same whatever bytes follow.  A
\* BitSequence the walk does not enter (the element of an empty sequence, the
\* inner type of a Compact) does not make the decode fail.
C8_BitSequenceWhenReached ==
    /\ (\E k \in 1..Len(walked) :
           Resolves(walked[k]) /\ resolve_type(walked[k]).def = "BitSequence")
       => /\ pc = "done"
          /\ resolve_type(walked[Len(walked)]).def = "BitSequence"
          /\ ret.res.tag # "Ok"
          /\ ret.res = Unimplemented
          /\ ret.events = <<>>
    /\ ret.res = Unimplemented =>
          /\ walked # <<>>
          /\ Resolves(walked[Len(walked)])
          /\ resolve_type(walked[Len(walked)]).def = "BitSequence"

\* a BitSequence reached as the element of an array, with input left over
C8_Witness ==
    /\ pc = "done"
    /\ walked = <<50, 40>>
    /\ Len(input) >= 2
    /\ ret.res.tag # "Ok"

\* C9: every failure reaches the caller as an Err value; the call returns.
C9_NoPanic ==
    pc = "done" => ret.res.tag \in {"Ok", "Err"}

\* the first type a type definition makes the walker resolve before it reads
\* any input, 0 when there is none
FirstRef(ty) ==
    IF ty.def \in {"Composite", "Tuple"} /\ ty.fields # <<>> THEN ty.fields[1]
    ELSE IF ty.def = "Array" /\ ty.len > 0 THEN ty.elem
    ELSE IF ty.def = "Compact" THEN ty.elem
    ELSE 0

\* C10: when the first field of the event, or the type a walked composite,
\* tuple, non-empty array or Compact refers to first, is not in the registry,
\* the call fails with TypeNotFound of that id.
C10_TypeNotFound ==
    /\ (/\ event_metadata # NoEvent
        /\ event_metadata.fields # <<>>
        /\ ~Resolves(event_metadata.fields[1])
        /\ pc # "fields") =>
          ret.res = TypeNotFound(event_metadata.fields[1])
    /\ \A k \in 1..Len(walked) :
          (/\ Resolves(walked[k])
           /\ FirstRef(resolve_type(walked[k])) # 0
           /\ ~Resolves(FirstRef(resolve_type(walked[k])))) =>
             ret.res = TypeNotFound(FirstRef(resolve_type(walked[k])))

\* the header of the record at the cursor: the phase and the two index bytes
HeaderAt(in) ==
    LET ph == DecodePhase(in)
        pi == IF ph.ok THEN ReadByte(ph.rest) ELSE Bad(ph.rest)
        vi == IF pi.ok THEN ReadByte(pi.rest) ELSE Bad(pi.rest)
    IN  IF vi.ok
        THEN [ok |-> TRUE, pallet_index |-> pi.val[1], variant_index |-> vi.val[1],
              rest |-> vi.rest]
        ELSE [ok |-> FALSE, pallet_index |-> 0, variant_index |-> 0, rest |-> vi.rest]

\* the loop is about to read a record whose index pair has no event
AtUnknownEvent ==
    /\ pc = "loop"
    /\ Len(r) < len
    /\ HeaderAt(input).ok
    /\ EventAt(HeaderAt(input).pallet_index, HeaderAt(input).variant_index) = {}

\* C11: a record whose index pair has no event in the registry makes
\* decode_events fail with EventNotFound of that pair; the cursor stops right
\* after the two index bytes, the walker is not entered and nothing is put in
\* a payload buffer.  EventNotFound has no other cause.
C11_EventNotFound ==
    [][/\ AtUnknownEvent =>
             /\ pc' = "done"
             /\ ret'.res.tag = "Err"
             /\ ret'.res.kind = "EventNotFound"
             /\ ret'.res.a = HeaderAt(input).pallet_index
             /\ ret'.res.b = HeaderAt(input).variant_index
             /\ ret'.events = <<>>
             /\ input' = HeaderAt(input).rest
             /\ walked' = walked
             /\ event_data' = event_data
       /\ (ret'.res.kind = "EventNotFound" /\ ret.res.kind # "EventNotFound") =>
             AtUnknownEvent]_vars

\* the second record is of an unknown variant of no known pallet; the bytes
\* after its indices are left, and the walker last ran for the first record
C11_Witness ==
    /\ pc = "done"
    /\ ret.res.kind = "EventNotFound"
    /\ ret.res.a = 9
    /\ Len(r) = 1
    /\ input = <<7>>
    /\ walked = <<1, 31>>

\* an unknown variant of a known pallet
C11_KnownPallet ==
    pc = "done" /\ ret.res.kind = "EventNotFound" /\ ret.res.a = 5 /\ ret.res.b = 0

\* the cursor went from `before` to `after` over exactly one wire-encoded value
\* of each of the types, and `out` is the encoding of those values and equal to
\* the bytes passed over
ExactlyConsumed(ids, before, after, out) ==
    LET d == TypedDecodeEach(ids, before, <<>>)
    IN  /\ d.ok
        /\ d.rest = after
        /\ out = TypedEncodeEach(ids, d.val)
        /\ out = Take(before, Len(before) - Len(after))
        /\ after = Drop(before, Len(out))

\* the walk of the record's fields returns Ok in this step
WalkReturnsOk == pc = "fields" /\ pc' = "topics"

\* C12: whenever the walk of a list of types returns Ok, the cursor has moved
\* over exactly one wire-encoded value of each type, and the bytes appended are
\* the encoding of those values, identical to the bytes consumed.
C12_ExactConsumption ==
    [][WalkReturnsOk =>
          ExactlyConsumed(event_metadata.fields, input, input', event_data')]_vars

\* some type the walk entered is a Compact
WalkedCompact(trace) ==
    \E k \in 1..Len(trace) : resolve_type(trace[k]).def = "Compact"

\* the same for every walk that enters no Compact type
C12_ExactOutsideCompact ==
    [][(WalkReturnsOk /\ ~WalkedCompact(walked')) =>
          ExactlyConsumed(event_metadata.fields, input, input', event_data')]_vars

\* every walk that returns Ok appended the bytes it consumed
C12_OutputIsInput ==
    [][WalkReturnsOk =>
          /\ event_data' = Take(input, Len(input) - Len(input'))
          /\ input' = Drop(input, Len(event_data'))]_vars

\* a Compact<u8> walked over the two bytes of the compact integer 256
C12_NotAValue ==
    /\ pc = "topics"
    /\ event_metadata.fields = <<24>>
    /\ event_data = <<1, 4>>

RECURSIVE Layout(_, _, _)
\* the bytes from `in` to `end` are the records of the events, one after the
\* other: the phase, the two index bytes, then the bytes the walker passes
\* over for the event's fields, which are the event's data and what the
\* walker puts in an empty buffer, then a count and that many hashes
Layout(in, end, events) ==
    IF events = <<>> THEN in = end
    ELSE
    LET e == Head(events)
        h == HeaderAt(in)
        at == EventAt(h.pallet_index, h.variant_index)
        em == metadata.events[CHOOSE k \in at : TRUE]
        w == decode_raw_event(em, h.rest)
        c == CompactDecode(4, w.in)
        n == CountOf(c.val)
    IN  /\ h.ok
        /\ at # {}
        /\ e.phase = DecodePhase(in).val
        /\ e.event.pallet_index = h.pallet_index
        /\ e.event.variant_index = h.variant_index
        /\ w.res = Ok
        /\ e.event.data = w.out
        /\ e.event.data = Take(h.rest, Len(h.rest) - Len(w.in))
        /\ c.ok
        /\ Len(c.rest) >= n * HashLen
        /\ Layout(Drop(c.rest, n * HashLen), end, Tail(events))

\* C13: the data of every RawEvent is what the walker puts in an empty buffer
\* for the record's fields, and it is the stretch of input between the
\* record's index bytes and its topics; the cursor is past the topics of
\* record i before record i + 1 is read, and the caller gets these events.
C13_PayloadIsolation ==
    /\ pc = "loop" => Layout(CompactDecode(4, orig).rest, input, r)
    /\ (pc = "done" /\ ret.res = Ok) =>
          /\ ret.events = r
          /\ proj.out.tag = "" =>
                Layout(CompactDecode(4, orig).rest, input, ret.events)

\* three events came out; the first has a payload of two bytes and a topic,
\* the second a payload of one byte and no topic
C13_Witness ==
    /\ pc = "done"
    /\ ret.res = Ok
    /\ WellFormed
    /\ Len(ret.events) = 3
    /\ wire[1].topics = 1
    /\ ret.events[1].event.data = <<1, 17>>
    /\ ret.events[2].event.data = <<0>>
    /\ ret.events[3].event.data = <<1, 255>>
    /\ ret.events[1].phase.tag = "ApplyExtrinsic"

\* the primitives that have a compact form
UnsignedPrimitives == {"U8", "U16", "U32", "U64", "U128"}

\* the walk is about to start on a record whose first field is a Compact type
AtCompactField ==
    /\ pc = "fields"
    /\ event_metadata.fields # <<>>
    /\ Resolves(event_metadata.fields[1])
    /\ resolve_type(event_metadata.fields[1]).def = "Compact"

\* the type parameter of the Compact type the walk starts on
WrappedId == resolve_type(event_metadata.fields[1]).elem

\* the walk starts on a Compact type, and the type it wraps is registered
AtCompactOfKnown == AtCompactField /\ Resolves(WrappedId)

\* the step reads one compact integer of w bytes' width from the cursor: a
\* value that does not decode at that width fails the call, one that does is
\* appended in compact form, and is all of the payload of a one-field event
ReadsCompactOfWidth(w) ==
    LET d == CompactDecode(w, input)
    IN  IF d.ok
        THEN /\ Len(event_data') >= Len(CompactEncode(d.val))
             /\ Take(event_data', Len(CompactEncode(d.val))) = CompactEncode(d.val)
             /\ Len(event_metadata.fields) = 1 =>
                   /\ pc' = "topics"
                   /\ input' = d.rest
                   /\ event_data' = CompactEncode(d.val)
        ELSE /\ pc' = "done"
             /\ ret' = Returned(CodecError, <<>>)
             /\ event_data' = <<>>

\* C14: a Compact whose inner type is U8, U16, U32, U64 or U128, or a
\* composite of one field of such a type, is read as one compact integer of
\* that primitive's width; a wire value that does not fit the width fails.
C14_WidthFollowsInner ==
    [][(AtCompactField /\ CompactTarget(WrappedId) \in UnsignedPrimitives) =>
          ReadsCompactOfWidth(WidthOf(CompactTarget(WrappedId)))]_vars

\* what the walk does with every Compact type, whatever it wraps: it reads
\* one compact integer of 128 bits
C14_ReadsU128 ==
    [][AtCompactField => ReadsCompactOfWidth(16)]_vars

\* the step rejects the Compact type with `err` and reads nothing
RejectsCompact(err) ==
    /\ pc' = "done"
    /\ ret' = Returned(err, <<>>)
    /\ input' = input
    /\ event_data' = <<>>

\* C15: a Compact whose inner type is a composite of no field or of two or
\* more fields is rejected with InvalidCompactType for every input, and no
\* compact integer is consumed.
C15_MultiFieldRejected ==
    [][(/\ AtCompactOfKnown
        /\ resolve_type(WrappedId).def = "Composite"
        /\ Len(resolve_type(WrappedId).fields) # 1) =>
          RejectsCompact(InvalidCompactType(SingleField))]_vars

\* a Compact over a composite of two fields took two bytes as an integer
C15_PairDecoded ==
    /\ pc = "topics"
    /\ event_metadata.fields = <<53>>
    /\ event_data = <<1, 4>>

\* C16: a Compact whose inner type is a primitive without a compact form is
\* rejected with InvalidCompactPrimitive of that primitive, and one whose
\* inner type is a variant, sequence, array, tuple or bit sequence with
\* InvalidCompactType, for every input.
C16_DisallowedInnerRejected ==
    [][/\ (/\ AtCompactOfKnown
            /\ resolve_type(WrappedId).def = "Primitive"
            /\ resolve_type(WrappedId).prim \notin UnsignedPrimitives) =>
              RejectsCompact(InvalidCompactPrimitive(resolve_type(WrappedId).prim))
       /\ (/\ AtCompactOfKnown
            /\ resolve_type(WrappedId).def \in
                  {"Variant", "Sequence", "Array", "Tuple", "BitSequence"}) =>
              RejectsCompact(InvalidCompactType(PrimitiveOrComposite))]_vars

\* a Compact over Bool and a Compact over a tuple were read as integers
C16_BoolDecoded ==
    /\ pc = "topics"
    /\ event_metadata.fields = <<54>>
    /\ event_data = <<1, 1>>

C16_TupleDecoded ==
    /\ pc = "topics"
    /\ event_metadata.fields = <<61>>
    /\ event_data = <<4>>

\* the second match on inner.type_def() takes its Compact arm, the 128 bit
\* read, for this Compact type
TakesFallback(type_id) ==
    /\ Resolves(CompactInner(type_id, resolve_type(type_id)))
    /\ resolve_type(CompactInner(type_id, resolve_type(type_id))).def = "Compact"

\* C17: the walk reads a Compact through the 128 bit fallback arm only when
\* the type the Compact wraps is itself a Compact; a Compact over a primitive
\* or a composite is never read through it.
C17_FallbackIsolated ==
    \A k \in 1..Len(walked) :
        (/\ Resolves(walked[k])
         /\ resolve_type(walked[k]).def = "Compact"
         /\ pc # "fields"
         /\ TakesFallback(walked[k])) =>
            /\ Resolves(resolve_type(walked[k]).elem)
            /\ resolve_type(resolve_type(walked[k]).elem).def = "Compact"

\* a Compact over a Compact was read through the fallback
C17_NestedDecoded ==
    /\ pc = "topics"
    /\ walked = <<63>>
    /\ event_data = <<4>>

\* a Compact over U8 was read through the fallback: 256 was accepted
C17_U8ThroughFallback ==
    /\ pc = "topics"
    /\ walked = <<24>>
    /\ TakesFallback(24)
    /\ event_data = <<1, 4>>

\* C18: the walk ends for every registry and input, and when the nesting of
\* decode_type calls outgrows what can be followed the call fails with an
\* error of its own: no call ends by exhausting the stack.
C18_DepthCeiling ==
    ret.res.tag # "Abort"

\* the walk of a type that reaches itself through a composite and a tuple
\* went on until the stack was used up, and read nothing
C18_Overflow ==
    /\ pc = "done"
    /\ ret.res = StackOverflow
    /\ Len(walked) = MaxDepth + 1
    /\ walked[1] = 70
    /\ walked[3] = 70
    /\ event_data = <<>>

\* a type that reaches itself through a variant is walked as far as the
\* input goes
C18_ListDecoded ==
    /\ pc = "topics"
    /\ walked = <<73, 73, 73>>
    /\ event_data = <<1, 1, 0>>

\* apart from self-referring composites, tuples and arrays, every walk
\* returns within the nesting of the types and the length of the input
C18_OnlyCycles ==
    ret.res.tag = "Abort" => walked[1] \in {70, 72}

\* the next state of a call that runs alone
StepAlone(s) ==
    CASE s.pc = "start" -> CountStep(s)
      [] s.pc = "loop" /\ Len(s.r) < s.len -> HeaderStep(s)
      [] s.pc = "loop" /\ Len(s.r) = s.len -> ReturnStep(s)
      [] s.pc = "fields" -> FieldsStep(s)
      [] s.pc = "topics" -> TopicsStep(s)
      [] OTHER -> s

RECURSIVE RunAlone(_), StatesAlone(_)
\* where a call that runs alone ends
RunAlone(s) == IF s.pc = "done" THEN s ELSE RunAlone(StepAlone(s))

\* the states a call that runs alone goes through
StatesAlone(s) == IF s.pc = "done" THEN {s} ELSE {s} \cup StatesAlone(StepAlone(s))

\* C19: of the calls that run at the same time on one decoder, each is at
\* every moment in a state it goes through when it runs alone on its input,
\* and ends with the result and the cursor it ends with alone; a step moves
\* one call and leaves the cursor, the buffer and the locals of every other
\* call, and the registry, as they were.
C19_Independent ==
    /\ [](\A c \in DOMAIN calls :
            /\ calls[c] \in StatesAlone(NewCall(calls[c].orig))
            /\ calls[c].pc = "done" =>
                  /\ calls[c].ret = RunAlone(NewCall(calls[c].orig)).ret
                  /\ calls[c].input = RunAlone(NewCall(calls[c].orig)).input)
    /\ [][/\ \E c \in DOMAIN calls : \A d \in DOMAIN calls \ {c} : calls'[d] = calls[d]
          /\ metadata' = metadata]_vars

\* two calls on different inputs are both under way: the first has pushed a
\* record and read the header of its second, the other is walking its fields
C19_Witness ==
    /\ calls # <<>>
    /\ calls[1].pc = "fields"
    /\ Len(calls[1].r) = 1
    /\ calls[2].pc = "topics"
    /\ calls[2].orig # calls[1].orig
    /\ Len(calls[1].input) # Len(calls[2].input)

\* both calls ended, one with two events and one with an error
C19_BothDone ==
    /\ calls # <<>>
    /\ calls[1].pc = "done"
    /\ calls[2].pc = "done"
    /\ Len(calls[1].ret.events) = 2
    /\ calls[2].ret.res = UnsupportedPrimitive("Char")

\* the bytes the call has consumed
Consumed == Take(orig, Len(orig) - Len(input))

\* the tag byte of the first record's phase is none of Phase's variants
InvalidPhaseTag ==
    /\ CompactDecode(4, orig).ok
    /\ CountOf(CompactDecode(4, orig).val) > 0
    /\ CompactDecode(4, orig).rest # <<>>
    /\ CompactDecode(4, orig).rest[1] > 2

\* C20: when decode_events succeeds on an input, it returns Err with a codec
\* failure, and no event, on every strict prefix of the bytes it consumed (of
\* a generated stream it consumes the records and none of the bytes put after
\* them, so the prefixes are those of the stream without such bytes); an
\* input whose count prefix is malformed or whose first phase tag is invalid
\* gives the same Err.
C20_TruncationIsErr ==
    /\ (pc = "done" /\ ret.res = Ok /\ proj.out.tag = "" /\ trailing = <<>>) =>
          \A k \in 0..(Len(Consumed) - 1) :
              RunAlone(NewCall(Take(orig, k))).ret = Returned(CodecError, <<>>)
    /\ (pc = "done" /\ ret.res = Ok /\ proj.out.tag = "" /\ WellFormed) =>
          Consumed = EncodeStream(wire) /\ input = trailing
    /\ (pc # "start" /\ ~CompactDecode(4, orig).ok) =>
          pc = "done" /\ ret = Returned(CodecError, <<>>)
    /\ (pc = "done" /\ InvalidPhaseTag) =>
          ret = Returned(CodecError, <<>>) /\ r = <<>>

\* the input breaks off after the first of two records; with the second
\* record it decodes
C20_Witness ==
    /\ pc = "done"
    /\ orig = <<8, 2, 0, 0, 0>>
    /\ Len(r) = 1
    /\ ret = Returned(CodecError, <<>>)
    /\ RunAlone(NewCall(orig \o <<2, 0, 0, 0>>)).ret.res = Ok

\* a stream of three records was decoded, and every prefix of it fails
C20_LongStream ==
    /\ pc = "done"
    /\ ret.res = Ok
    /\ Len(ret.events) = 3
    /\ Len(Consumed) >= 20
    /\ input = <<>>

\* an invalid phase tag, and a count prefix that is not canonical
C20_PhaseTag == pc = "done" /\ InvalidPhaseTag /\ ret.res = CodecError

C20_CountPrefix == pc = "done" /\ orig = <<1, 0>> /\ ret.res = CodecError

RECURSIVE WalksOf(_, _, _)
\* the walks of the types one after the other, each into an empty buffer and
\* from where the walk before it left the cursor, up to and with the first
\* walk that fails
WalksOf(ids, in, depth) ==
    IF ids = <<>> THEN <<>>
    ELSE LET w == decode_type(Head(ids), Walk(in, <<>>, <<>>, Ok), depth)
         IN  IF w.res = Ok THEN <<w>> \o WalksOf(Tail(ids), w.in, depth)
             ELSE <<w>>

RECURSIVE WalksTimes(_, _, _, _)
\* the same for n walks of one type
WalksTimes(elem, n, in, depth) ==
    IF n = 0 THEN <<>>
    ELSE LET w == decode_type(elem, Walk(in, <<>>, <<>>, Ok), depth)
         IN  IF w.res = Ok THEN <<w>> \o WalksTimes(elem, n - 1, w.in, depth)
             ELSE <<w>>

RECURSIVE OutOf(_), TraceOf(_)
\* what the walks appended, and the type ids they entered, in order
OutOf(ws) == IF ws = <<>> THEN <<>> ELSE Head(ws).out \o OutOf(Tail(ws))

TraceOf(ws) == IF ws = <<>> THEN <<>> ELSE Head(ws).trace \o TraceOf(Tail(ws))

\* the walk is about to start on a record whose only field is of a type of
\* this shape
AtOnlyField(def) ==
    /\ pc = "fields"
    /\ Len(event_metadata.fields) = 1
    /\ Resolves(event_metadata.fields[1])
    /\ resolve_type(event_metadata.fields[1]).def = def

\* the type of the record's first field
FieldId == event_metadata.fields[1]

FieldType == resolve_type(FieldId)

\* the step walks type t by putting `own` in the buffer and then doing the
\* walks ws, which are those of its n children from the cursor `start`: the
\* buffer holds own and what the walks appended, the cursor is where the last
\* walk left it, and the call goes on if every child was walked and fails
\* with the error of the walk that failed
ChildrenWalked(t, n, own, start, ws) ==
    /\ walked' = <<t>> \o TraceOf(ws)
    /\ event_data' = own \o OutOf(ws)
    /\ input' = (IF ws = <<>> THEN start ELSE ws[Len(ws)].in)
    /\ IF Len(ws) = n /\ (ws = <<>> \/ ws[Len(ws)].res = Ok)
       THEN pc' = "topics" /\ ret' = ret
       ELSE pc' = "done" /\ ret' = Returned(ws[Len(ws)].res, <<>>)

\* the step fails with err, having read and appended `own` and entered no
\* type but t
FailsAt(t, err, own) ==
    /\ pc' = "done"
    /\ ret' = Returned(err, <<>>)
    /\ walked' = <<t>>
    /\ event_data' = own
    /\ input' = Drop(input, Len(own))

\* C22: the walk of a Variant type reads one byte d and appends it, then
\* walks the fields of the variant at position d of the declared list, in
\* order; with d not below the number of variants it fails with
\* VariantNotFound(d), having walked no field.
C22_VariantWalk ==
    [][AtOnlyField("Variant") =>
          IF input = <<>> THEN FailsAt(FieldId, CodecError, <<>>)
          ELSE IF input[1] >= Len(FieldType.variants)
          THEN FailsAt(FieldId, VariantNotFound(input[1]), <<input[1]>>)
          ELSE ChildrenWalked(FieldId, Len(FieldType.variants[input[1] + 1]),
                   <<input[1]>>, Tail(input),
                   WalksOf(FieldType.variants[input[1] + 1], Tail(input),
                       MaxDepth - 1))]_vars

\* the second variant of two was selected and its one field walked
C22_Witness ==
    /\ pc = "topics"
    /\ event_metadata.fields = <<30>>
    /\ walked = <<30, 1>>
    /\ event_data = <<1, 255>>
    /\ input = <<0>>

\* a discriminant that no variant has
C22_NotFound ==
    /\ pc = "done"
    /\ event_metadata.fields = <<30>>
    /\ ret.res = VariantNotFound(4)
    /\ walked = <<30>>
    /\ event_data = <<4>>

\* the count a sequence begins with, as the codec reads it at the cursor
CountAt(in) == CompactDecode(4, in)

\* C23: the walk of a Sequence type reads one compact count c and appends its
\* canonical compact encoding, then walks the element type c times, one walk
\* after the other; the first element walk that fails ends the walk of the
\* sequence with its error and no further element is walked.
C23_SequenceWalk ==
    [][AtOnlyField("Sequence") =>
          IF ~CountAt(input).ok
          THEN /\ pc' = "done"
               /\ ret' = Returned(CodecError, <<>>)
               /\ walked' = <<FieldId>>
               /\ event_data' = <<>>
               /\ input' = CountAt(input).rest
          ELSE ChildrenWalked(FieldId, CountOf(CountAt(input).val),
                   CompactEncode(CountAt(input).val), CountAt(input).rest,
                   WalksTimes(FieldType.elem, CountOf(CountAt(input).val),
                       CountAt(input).rest, MaxDepth - 1))]_vars

\* a sequence of two pairs was walked: the count, then bool, u8, bool, u8
C23_Witness ==
    /\ pc = "topics"
    /\ event_metadata.fields = <<35>>
    /\ walked = <<35, 32, 2, 1, 32, 2, 1>>
    /\ event_data = <<8, 1, 17, 0, 255>>

\* the second of two elements fails in its first part: nothing more is walked
C23_SecondElementFails ==
    /\ pc = "done"
    /\ event_metadata.fields = <<35>>
    /\ walked = <<35, 32, 2, 1, 32, 2>>
    /\ event_data = <<8, 1, 17>>
    /\ input = <<0>>
    /\ ret.res = CodecError

\* the count says 64 elements and the first fails: it is the only one walked
C23_FirstOfManyFails ==
    /\ pc = "done"
    /\ event_metadata.fields = <<35>>
    /\ orig = <<4, 2, 1, 2, 1, 1, 1>>
    /\ walked = <<35, 32, 2, 1>>
    /\ ret.res = CodecError

\* the walk is about to start on a record whose first field is of a type of
\* one of these shapes
AtFirstField(defs) ==
    /\ pc = "fields"
    /\ event_metadata.fields # <<>>
    /\ Resolves(FieldId)
    /\ FieldType.def \in defs

\* where the walks ws, begun at start, left the cursor
EndOf(ws, start) == IF ws = <<>> THEN start ELSE ws[Len(ws)].in

\* the walks ws of the n children of the first field, followed, when none of
\* them failed, by the walks of the record's other fields
ThenOtherFields(ws, n, start) ==
    IF Len(ws) = n /\ (ws = <<>> \/ ws[Len(ws)].res = Ok)
    THEN ws \o WalksOf(Tail(event_metadata.fields), EndOf(ws, start), MaxDepth)
    ELSE ws

\* the children of a type without a prefix of its own, and their walks
UnprefixedCount(ty) == IF ty.def = "Array" THEN ty.len ELSE Len(ty.fields)

UnprefixedWalks(ty, in) ==
    IF ty.def = "Array" THEN WalksTimes(ty.elem, ty.len, in, MaxDepth - 1)
    ELSE WalksOf(ty.fields, in, MaxDepth - 1)

\* C24: the walk of a Composite, Tuple or Array type reads and appends nothing
\* of its own: it consumes and appends what the walks of its children do, the
\* fields of a composite and the elements of a tuple in declared order, the
\* element of an array `length` times; with no child it changes nothing.
C24_UnprefixedShapes ==
    [][AtFirstField({"Composite", "Tuple", "Array"}) =>
          ChildrenWalked(FieldId,
              UnprefixedCount(FieldType) + Len(event_metadata.fields) - 1,
              <<>>, input,
              ThenOtherFields(UnprefixedWalks(FieldType, input),
                  UnprefixedCount(FieldType), input))]_vars

\* an array of two u16 took four bytes, and the bool after it one
C24_Witness ==
    /\ pc = "topics"
    /\ event_metadata.fields = <<33, 2>>
    /\ walked = <<33, 3, 3, 2>>
    /\ event_data = <<1, 0, 0, 128, 1>>

\* an array of length 0, an empty composite and an empty tuple took nothing
\* from an input that had bytes
C24_EmptyArray ==
    /\ pc = "topics"
    /\ walked = <<47>>
    /\ event_data = <<>>
    /\ input = <<4, 255>>

C24_EmptyComposite ==
    /\ pc = "topics"
    /\ walked = <<51>>
    /\ event_data = <<>>
    /\ input = <<4, 255>>

C24_EmptyTuple ==
    /\ pc = "topics"
    /\ walked = <<74>>
    /\ event_data = <<>>
    /\ input = <<4, 255>>

\* two composites of an array of 32 bytes each, then a Compact
C24_Accounts ==
    /\ pc = "topics"
    /\ event_metadata.fields = <<21, 21, 22>>
    /\ Len(walked) = 69
    /\ Len(event_data) = 66

\* C25: the registry the decoder holds is at every moment the one it was
\* constructed with, whatever calls have run, succeeded or failed, and no step
\* of a call changes it; what a call has returned stays as it is while other
\* calls go on.
C25_RegistryReadOnly ==
    /\ [](metadata = Snapshot)
    /\ [][/\ metadata' = metadata
          /\ \A c \in DOMAIN calls :
                calls[c].pc = "done" => calls'[c].ret = calls[c].ret]_vars

\* a call has returned an event, and another call on the same decoder is in
\* the middle of a record after it
C25_Witness ==
    /\ calls # <<>>
    /\ calls[1].pc = "done"
    /\ calls[1].ret.res = Ok
    /\ Len(calls[1].ret.events) = 1
    /\ calls[2].pc = "topics"
    /\ Len(calls[2].r) = 1
    /\ metadata = Snapshot

\* one call has failed and one has panicked
C25_AfterFailures ==
    /\ calls # <<>>
    /\ calls[1].pc = "done"
    /\ calls[1].ret.res = Unimplemented
    /\ calls[2].pc = "done"
    /\ calls[2].ret.res = CodecError
    /\ metadata = Snapshot

\* the errors the Compact arm has for an inner type it does not accept
CompactRejections == {"InvalidCompactPrimitive", "InvalidCompactType"}

\* C27: for every Compact type, whatever it wraps, the walk reads one compact
\* integer of 128 bits at the cursor and appends its encoding once, entering
\* no other type; it fails only when the bytes at the cursor are not such an
\* integer, with the codec's error and nothing appended.  No call ends with
\* InvalidCompactPrimitive or InvalidCompactType.
C27_AlwaysU128 ==
    /\ [](ret.res.kind \notin CompactRejections)
    /\ [][AtCompactField =>
             /\ ReadsCompactOfWidth(16)
             /\ walked'[1] = FieldId
             /\ ~CompactDecode(16, input).ok =>
                   walked' = <<FieldId>> /\ input' = CompactDecode(16, input).rest
             /\ Len(event_metadata.fields) = 1 => walked' = <<FieldId>>]_vars

\* a Compact whose type parameter is not in the registry took the two bytes
\* of the compact integer 64
C27_Witness ==
    /\ pc = "topics"
    /\ event_metadata.fields = <<44>>
    /\ walked = <<44>>
    /\ event_data = <<1, 1>>
    /\ input = <<0>>

\* a Compact over a bit sequence took 256, and one over a string failed on a
\* byte that begins no compact integer the input holds
C27_OverBits ==
    /\ pc = "topics"
    /\ event_metadata.fields = <<62>>
    /\ event_data = <<1, 4>>

C27_CodecFailure ==
    /\ pc = "done"
    /\ event_metadata.fields = <<55>>
    /\ walked = <<55>>
    /\ orig = <<4, 2, 6, 3, 255, 1>>
    /\ ret.res = CodecError

\* a is what is left of b after some of its first bytes
IsSuffix(a, b) == Len(a) <= Len(b) /\ a = Drop(b, Len(b) - Len(a))

\* the record boundaries of an input: where the cursor is each time the loop
\* of decode_events is at its head
Boundaries(b) ==
    {s.input : s \in {x \in StatesAlone(NewCall(b)) : x.pc = "loop"}}

\* the call has ended without giving Ok
Failed == pc = "done" /\ ret.res.tag # "Ok"

\* C28 as stated: after a failure the cursor is neither at the start of the
\* input nor at a record boundary.
C28_NeverAtBoundary ==
    Failed => input \notin Boundaries(orig) \cup {orig}

\* C28 (amended): the cursor is at every moment a suffix of the input passed
\* in and every step leaves a suffix of what it found; when the walk of a
\* record's fields fails the cursor stays where the failing walk left it,
\* past the fields walked before; after a failure the cursor is at the start
\* of the input or at a record boundary only when no byte is left there.
C28_ForwardOnly ==
    /\ [](IsSuffix(input, orig))
    /\ [](Failed /\ input \in Boundaries(orig) \cup {orig} => input = <<>>)
    /\ [][/\ IsSuffix(input', input)
          /\ (pc = "fields" /\ pc' = "done") =>
                input' = EndOf(WalksOf(event_metadata.fields, input, MaxDepth),
                               input)]_vars

\* the second field of a record failed after the first took a byte: the
\* cursor is past that byte, at the one byte that is too few for an i16
C28_Witness ==
    /\ Failed
    /\ event_metadata.fields = <<24, 10>>
    /\ orig = <<4, 2, 1, 6, 4, 1>>
    /\ walked = <<24, 10>>
    /\ input = <<1>>
    /\ event_data = <<4>>

\* the input ends where the second record would begin
C28_AtBoundary ==
    /\ Failed
    /\ orig = <<8, 2, 0, 0, 0>>
    /\ input = <<>>
    /\ Len(r) = 1

\* what the call gives on the records of the generated stream alone, with no
\* byte after them
WithoutTrailing == RunAlone(NewCall(EncodeStream(wire)))

\* C29: when the input is a count N, N records that decode, and further
\* bytes, decode_events returns Ok with the N entries it returns without the
\* further bytes and leaves the cursor at the first of them; with N = 0 it
\* returns an empty list and has consumed the count only.
C29_TrailingIgnored ==
    (/\ pc = "done"
     /\ WellFormed
     /\ trailing # <<>>
     /\ proj.out.tag = ""
     /\ WithoutTrailing.ret.res = Ok)
    => /\ ret = WithoutTrailing.ret
       /\ Len(ret.events) = Len(wire)
       /\ input = trailing
       /\ Consumed = EncodeStream(wire)
       /\ wire = <<>> => ret = Returned(Ok, <<>>) /\ Consumed = <<0>>

\* three records were returned and the bytes of a fourth, which the count
\* does not cover, were left
C29_Witness ==
    /\ pc = "done"
    /\ WellFormed
    /\ ret.res = Ok
    /\ Len(ret.events) = 3
    /\ trailing = <<2, 0, 0, 0>>
    /\ input = trailing

\* a count of 0 followed by bytes
C29_CountZero ==
    /\ pc = "done"
    /\ WellFormed
    /\ wire = <<>>
    /\ orig = <<0, 4, 255>>
    /\ ret = Returned(Ok, <<>>)
    /\ input = <<4, 255>>

\* the step walks the record's one field, of type t, without entering any
\* other type: it appends `own`, moves the cursor past it and goes on
WalkedAlone(t, own) ==
    /\ pc' = "topics"
    /\ walked' = <<t>>
    /\ event_data' = own
    /\ input' = Drop(input, Len(own))
    /\ ret' = ret

\* the last type the walk entered
LastWalked == walked[Len(walked)]

\* C30: a Sequence whose count on the wire is 0, an Array of length 0 and a
\* Variant whose selected variant has no field are walked with success and
\* without entering the element or field types of the definition, whatever
\* those are; and the errors about a type (not in the registry, unsupported,
\* not implemented) are raised for the type the walk entered last only.
C30_ResolvedWhenRead ==
    /\ []((pc = "done" /\ ret.res.kind = "TypeNotFound") =>
             /\ walked # <<>>
             /\ LastWalked = ret.res.a
             /\ ~Resolves(LastWalked))
    /\ []((pc = "done" /\ ret.res.kind = "UnsupportedPrimitive") =>
             /\ walked # <<>>
             /\ IsPrimitiveOf(LastWalked, {ret.res.prim}))
    /\ []((pc = "done" /\ ret.res = Unimplemented) =>
             /\ walked # <<>>
             /\ resolve_type(LastWalked).def = "BitSequence")
    /\ [][/\ (/\ AtOnlyField("Sequence")
              /\ CountAt(input).ok
              /\ CountAt(input).val = <<>>) => WalkedAlone(FieldId, <<0>>)
          /\ (AtOnlyField("Array") /\ FieldType.len = 0) =>
                WalkedAlone(FieldId, <<>>)
          /\ (/\ AtOnlyField("Variant")
              /\ input # <<>>
              /\ input[1] < Len(FieldType.variants)
              /\ FieldType.variants[input[1] + 1] = <<>>) =>
                WalkedAlone(FieldId, <<input[1]>>)]_vars

\* the type definitions that refer to a type the walker would refuse
RefersToRefused(t) ==
    \E c \in Children(resolve_type(t)) :
        \/ ~Resolves(c)
        \/ IsPrimitiveOf(c, UnsupportedKinds)
        \/ resolve_type(c).def = "BitSequence"

\* a sequence of an unregistered type with count 0 was walked
C30_Witness ==
    /\ pc = "topics"
    /\ walked = <<46>>
    /\ RefersToRefused(46)
    /\ event_data = <<0>>
    /\ input = <<4, 255>>

\* the same for sequences of bit sequences and of U256, arrays of length 0
\* of Char and of an unregistered type, and variants with a Char and with an
\* unregistered field in the variant not selected
C30_EverySuchType ==
    /\ pc = "topics"
    /\ Len(walked) = 1
    /\ walked[1] \in {41, 77, 47, 76, 42, 75}
    /\ RefersToRefused(walked[1])

RECURSIVE ValueIn(_, _)
\* the number that digits of the base stand for, highest first
ValueIn(cs, base) ==
    IF cs = <<>> THEN <<>>
    ELSE Trim(MulAdd(ValueIn(Take(cs, Len(cs) - 1), base), base,
                     ValueOf(cs[Len(cs)])))

\* a run of 1 or more digits of the base without a leading zero, "0" apart
IsNumeral(cs, base) ==
    /\ cs # <<>>
    /\ \A i \in 1..Len(cs) : IsDigit(cs[i], base)
    /\ (cs[1] = "0" => Len(cs) = 1)

\* hex digit k of a U256, the lowest being digit 0
NibbleAt(h, k) ==
    IF k % 2 = 0 THEN Pad(h, U256Bytes)[k \div 2 + 1] % 16
    ELSE Pad(h, U256Bytes)[k \div 2 + 1] \div 16

\* the hex digits cs, highest first, are those of h
IsHexOf(cs, h) ==
    /\ IsNumeral(cs, 16)
    /\ Len(cs) <= 2 * U256Bytes
    /\ \A k \in 0..(2 * U256Bytes - 1) :
          NibbleAt(h, k) = IF k < Len(cs) THEN ValueOf(cs[Len(cs) - k]) ELSE 0

\* the text is the 0x-prefixed hex string of h, in quotes
IsHexStringOf(text, h) ==
    /\ Len(text) >= 5
    /\ text[1] = Quote
    /\ text[2] = "0"
    /\ text[3] = "x"
    /\ text[Len(text)] = Quote
    /\ IsHexOf(SubSeq(text, 4, Len(text) - 1), h)

\* C21: NumberOrHex JSON round trip.  In every reachable state of the RPC
\* layer, the text a Number(n) was serialized to is the JSON number n (its
\* decimal digits, no quotes, no leading zero), the text a Hex(h) was
\* serialized to is the quoted 0x-prefixed hex string of h, and once that
\* text is deserialized the result is Ok of the value that was serialized,
\* of the same variant.
C21_RoundTrip ==
    (rpc.x # NoNumber /\ rpc.pc \in {"text", "parsed"}) =>
        /\ rpc.x.tag = "Number" =>
              /\ IsNumeral(rpc.text, 10)
              /\ ValueIn(rpc.text, 10) = rpc.x.val
        /\ rpc.x.tag = "Hex" => IsHexStringOf(rpc.text, rpc.x.val)
        /\ rpc.pc = "parsed" => rpc.back = Parsed(rpc.x)

\* Hex(0x1234) went to "0x1234" and came back as Hex(0x1234)
C21_Witness ==
    /\ rpc.pc = "parsed"
    /\ rpc.x = Hex(<<52, 18>>)
    /\ rpc.text = <<Quote, "0", "x", "1", "2", "3", "4", Quote>>
    /\ rpc.back = Parsed(Hex(<<52, 18>>))

\* Number(1000000000000) went to 1000000000000 and came back as a Number
C21_Number ==
    /\ rpc.pc = "parsed"
    /\ rpc.x = Number(<<0, 16, 165, 212, 232>>)
    /\ rpc.text = <<"1", "0", "0", "0", "0", "0", "0", "0", "0", "0", "0",
                    "0", "0">>
    /\ rpc.back = Parsed(Number(<<0, 16, 165, 212, 232>>))

\* the largest u64 came back as a Number, the largest U256 as a Hex
C21_Largest ==
    /\ rpc.pc = "parsed"
    /\ rpc.back.ok
    /\ \/ rpc.x = Number(Rep(255, U64Bytes)) /\ Len(rpc.text) = 20
       \/ rpc.x = Hex(Rep(255, U256Bytes)) /\ Len(rpc.text) = 68

\* Hex(0) went to "0x0" and came back as Hex(0), not as Number(0)
C21_HexZero ==
    /\ rpc.pc = "parsed"
    /\ rpc.x = Hex(<<>>)
    /\ rpc.text = <<Quote, "0", "x", "0", Quote>>
    /\ rpc.back = Parsed(Hex(<<>>))

\* a text from elsewhere that is no NumberOrHex is refused
C21_Refused ==
    /\ rpc.pc = "parsed"
    /\ rpc.x = NoNumber
    /\ ~rpc.back.ok

\* C26: NumberOrHex narrowing is range-checked.  In every reachable state
\* where a NumberOrHex of value v was converted to u32, u64 or u128, the
\* result is Ok(v) when v fits the target's bytes and Err(TryFromIntError)
\* when it does not, and the other variant holding the same value converts
\* to the same result.
C26_RangeChecked ==
    rpc.target # 0 =>
        /\ Len(Trim(rpc.x.val)) <= rpc.target =>
              rpc.into = Converted(Trim(rpc.x.val))
        /\ Len(Trim(rpc.x.val)) > rpc.target => rpc.into = TryFromIntError
        /\ rpc.x.tag = "Number" =>
              try_from(Hex(rpc.x.val), rpc.target) = rpc.into
        /\ (rpc.x.tag = "Hex" /\ Len(Trim(rpc.x.val)) <= U64Bytes) =>
              try_from(Number(rpc.x.val), rpc.target) = rpc.into

\* Hex(2^32) to u32 is an error and not 0
C26_Witness ==
    /\ rpc.x = Hex(<<0, 0, 0, 0, 1>>)
    /\ rpc.target = U32Bytes
    /\ rpc.into = TryFromIntError

\* the largest u32 as a Number, the largest u128 as a Hex: Ok
C26_Fits ==
    /\ rpc.into.ok
    /\ \/ /\ rpc.x = Number(Rep(255, U32Bytes))
          /\ rpc.target = U32Bytes
          /\ rpc.into.val = Rep(255, U32Bytes)
       \/ /\ rpc.x = Hex(Rep(255, U128Bytes))
          /\ rpc.target = U128Bytes
          /\ rpc.into.val = Rep(255, U128Bytes)

\* 2^64 to u64 and 2^128 to u128 are errors
C26_OneAbove ==
    /\ rpc.into = TryFromIntError
    /\ \/ rpc.x = Hex(Zeros(U64Bytes) \o <<1>>) /\ rpc.target = U64Bytes
       \/ rpc.x = Hex(Zeros(U128Bytes) \o <<1>>) /\ rpc.target = U128Bytes

====
